---- MODULE Spec2Model ----
(***************************************************************************)
(* Model of the two algorithmic components of JupyterGenoViewer:           *)
(*   - Level (src/JGV/JGV_Level.py): the greedy non-overlapping feature    *)
(*     layout, driven one __call__ at a time;                              *)
(*   - Alignment.interval_coverage (src/JGV/JGV_Alignment.py): the binned  *)
(*     coverage of an interval.                                            *)
(* The leveler is checked under Spec; the coverage binner under SpecCov    *)
(* and SpecWide, and under SpecInv for start >= end.                       *)
(***************************************************************************)
EXTENDS Integers, Sequences, FiniteSets, TLC

VARIABLES
    \* ---- Level instance (JGV_Level.py) ----
    max_depth,        \* self.max_depth
    offset,           \* self.offset
    filter_pos,       \* self.filter_pos
    filter_neg,       \* self.filter_neg
    filter_unstrand,  \* self.filter_unstrand
    level_dict,       \* self.level_dict : level -> end of the last feature put there
    count,            \* self.count (a Counter: a missing key reads 0)
    ret,              \* what the last __call__ returned (None or an enhanced_feature)
    hist,             \* history: the calls made so far, each with what it returned
    \* ---- Alignment instance (JGV_Alignment.py) and its interval_coverage ----
    d,                \* self.d : refid -> strand -> (position -> depth)
    cov_call,         \* the arguments of the interval_coverage call made (None before it)
    cov_df,           \* the DataFrame it returned: rows [idx, val["+"], val["-"]]
    cov_wins,         \* history: the (winstart, winend) of each pass of its loop
    \* ---- Alignment instance: construction and the coverage file ----
    d_keys,           \* the keys of self.d in the order of the OrderedDict
    nbases,           \* self.nbases
    init_min_coverage, \* the min_coverage the Alignment was constructed with
    outfile,          \* the file written by _write_coverage_file (None before it)
    bed,              \* the Alignment constructed from that file (None before it)
    \* ---- Alignment instance: the call of the constructor ----
    init_fp,          \* the file given to Alignment() (None when it is not recorded)
    init_args,        \* min_coverage and refid_list of the call made (None before it)
    \* ---- JGV instance: the session and its interval_plot ----
    reference,        \* self.ref_list and self.reference.refid_list (None: no session)
    annotations,      \* self.annotations: the Annotation tracks, each [name, ext, df]
    alignments,       \* self.alignments: the Alignment tracks, each [name, d, nbases]
    adds,             \* history: the add_annotation and add_alignment calls made
    plot_call,        \* the arguments of the interval_plot call (None before it)
    annotation_dict,  \* its annotation_dict: per track, [name, df]
    plot_pc,          \* where its layout loop stands (None outside the loop)
    \* ---- all ----
    exc               \* the exception the last call raised ("" when it returned)

levelVars == <<max_depth, offset, filter_pos, filter_neg, filter_unstrand,
               level_dict, count, ret, hist>>

covVars == <<d, cov_call, cov_df, cov_wins>>

fileVars == <<d_keys, nbases, init_min_coverage, outfile, bed>>

inputVars == <<init_fp, init_args>>

sessionVars == <<reference, annotations, alignments, adds,
                 plot_call, annotation_dict, plot_pc>>

vars == <<levelVars, covVars, fileVars, inputVars, sessionVars, exc>>

(***************************************************************************)
(* Bounds and input sets of the leveler.                                   *)
(***************************************************************************)
\* number of __call__s made on one Level instance
MaxCalls == 3
\* largest max_depth a Level is constructed with
MaxDepth == 2
\* offsets a Level is constructed with (10 is the default, 0 the smallest distance)
Offsets == {0, 10, 15}
\* the (start, end) pairs features are drawn from, start < end
Spans == {<<0, 10>>, <<5, 8>>, <<5, 15>>, <<25, 30>>}
\* which strands a Level is constructed to filter out: at most one here
Filters == {<<FALSE, FALSE, FALSE>>, <<TRUE, FALSE, FALSE>>,
            <<FALSE, TRUE, FALSE>>, <<FALSE, FALSE, TRUE>>}
\* strand symbols passed to __call__ ("?" stands for any other symbol)
Strands == {"+", "-", ".", "?"}
\* the feature names
IDs == {"f"}

None == [none |-> TRUE]
\* the default of min_coverage
DefaultMinCoverage == 5
\* an Alignment with no reference
NoData == [r \in {} |-> 0]

pos_arrowstyle == "-|>,head_width=1,head_length=2"
neg_arrowstyle == "<|-,head_width=1,head_length=2"
unstrand_arrowstyle == "-"

enhanced_feature(ID, start, end, arrowstyle, level) ==
    [ID |-> ID, start |-> start, end |-> end, arrowstyle |-> arrowstyle, level |-> level]

(***************************************************************************)
(* Level.__call__ as a function of the instance's fields.                  *)
(***************************************************************************)
\* a Level instance: its options and its two containers
LevelObj(md, off, fp, fn, fu, ld, cnt) ==
    [max_depth |-> md, offset |-> off, filter_pos |-> fp, filter_neg |-> fn,
     filter_unstrand |-> fu, level_dict |-> ld, count |-> cnt]

\* Level.__init__ : empty level_dict, empty Counter
EmptyDict == [l \in {} |-> 0]
EmptyCount == [all_features |-> 0, positive_features |-> 0,
               negative_features |-> 0, unstranded_features |-> 0]

\* variants of the free-level test: "<=" for "<", and the offset left out
LevelFreeLe(ld, level, off, start) ==
    level \notin DOMAIN ld \/ (ld[level] + off) <= start
LevelFreeNoOffset(ld, level, off, start) ==
    level \notin DOMAIN ld \/ ld[level] < start

\* "level not in self.level_dict or (self.level_dict[level]+self.offset) < start"
LevelFree(ld, level, off, start) ==
    level \notin DOMAIN ld \/ (ld[level] + off) < start

\* variant of the record update: a level already present keeps its record
OccupyOnce(ld, level, end) ==
    [l \in (DOMAIN ld) \cup {level} |-> IF l \in DOMAIN ld THEN ld[l] ELSE end]

\* "self.level_dict[level] = end"
Occupy(ld, level, end) ==
    [l \in (DOMAIN ld) \cup {level} |-> IF l = level THEN end ELSE ld[l]]

\* the while loops: from level, step by dir (+1 or -1), while within max_depth,
\* until a free level; the value is the level the loop stops at
\* (dir * (max_depth + 1) when no level was free)
RECURSIVE ScanLevel(_, _, _, _, _, _)
ScanLevel(ld, level, dir, md, off, start) ==
    IF dir * level <= md
    THEN IF LevelFree(ld, level, off, start)
         THEN level
         ELSE ScanLevel(ld, level + dir, dir, md, off, start)
    ELSE level

Bump(cnt, key) == [cnt EXCEPT ![key] = @ + 1]

\* variant of the positive branch: a feature that finds no free level is
\* recorded on the deepest one, and nothing is returned
CallPosClobber(o, cnt, ID, start, end) ==
    LET cnt2 == Bump(cnt, "positive_features")
        level == ScanLevel(o.level_dict, 1, 1, o.max_depth, o.offset, start)
    IN  IF level <= o.max_depth
        THEN [level_dict |-> Occupy(o.level_dict, level, end), count |-> cnt2,
              ret |-> enhanced_feature(ID, start, end, pos_arrowstyle, level)]
        ELSE [level_dict |-> Occupy(o.level_dict, o.max_depth, end), count |-> cnt2,
              ret |-> None]

\* variant of the positive branch: "while level < self.max_depth"
CallPosShort(o, cnt, ID, start, end) ==
    LET cnt2 == Bump(cnt, "positive_features")
        level == ScanLevel(o.level_dict, 1, 1, o.max_depth - 1, o.offset, start)
    IN  IF level <= o.max_depth - 1
        THEN [level_dict |-> Occupy(o.level_dict, level, end), count |-> cnt2,
              ret |-> enhanced_feature(ID, start, end, pos_arrowstyle, level)]
        ELSE [level_dict |-> o.level_dict, count |-> cnt2, ret |-> None]

\* the branch for a feature on the positive strand
CallPos(o, cnt, ID, start, end) ==
    LET cnt2 == Bump(cnt, "positive_features")
        level == ScanLevel(o.level_dict, 1, 1, o.max_depth, o.offset, start)
    IN  IF level <= o.max_depth
        THEN [level_dict |-> Occupy(o.level_dict, level, end), count |-> cnt2,
              ret |-> enhanced_feature(ID, start, end, pos_arrowstyle, level)]
        ELSE [level_dict |-> o.level_dict, count |-> cnt2, ret |-> None]

\* variant of the negative branch: the free-level test reads the record of
\* the positive level opposite ("self.level_dict[-level]")
CallNegOpposite(o, cnt, ID, start, end) ==
    LET cnt2 == Bump(cnt, "negative_features")
        opposite == [l \in {-k : k \in DOMAIN o.level_dict} |-> o.level_dict[-l]]
        level == ScanLevel(opposite, -1, -1, o.max_depth, o.offset, start)
    IN  IF level >= -o.max_depth
        THEN [level_dict |-> Occupy(o.level_dict, level, end), count |-> cnt2,
              ret |-> enhanced_feature(ID, start, end, neg_arrowstyle, level)]
        ELSE [level_dict |-> o.level_dict, count |-> cnt2, ret |-> None]

\* variant of the negative branch: "while level >= -self.max_depth - 1"
CallNegDeep(o, cnt, ID, start, end) ==
    LET cnt2 == Bump(cnt, "negative_features")
        level == ScanLevel(o.level_dict, -1, -1, o.max_depth + 1, o.offset, start)
    IN  IF level >= -o.max_depth - 1
        THEN [level_dict |-> Occupy(o.level_dict, level, end), count |-> cnt2,
              ret |-> enhanced_feature(ID, start, end, neg_arrowstyle, level)]
        ELSE [level_dict |-> o.level_dict, count |-> cnt2, ret |-> None]

\* variant of the negative branch: the free-level test without the offset
CallNegNoOffset(o, cnt, ID, start, end) ==
    LET cnt2 == Bump(cnt, "negative_features")
        level == ScanLevel(o.level_dict, -1, -1, o.max_depth, 0, start)
    IN  IF level >= -o.max_depth
        THEN [level_dict |-> Occupy(o.level_dict, level, end), count |-> cnt2,
              ret |-> enhanced_feature(ID, start, end, neg_arrowstyle, level)]
        ELSE [level_dict |-> o.level_dict, count |-> cnt2, ret |-> None]

\* the branch for a feature on the negative strand
CallNeg(o, cnt, ID, start, end) ==
    LET cnt2 == Bump(cnt, "negative_features")
        level == ScanLevel(o.level_dict, -1, -1, o.max_depth, o.offset, start)
    IN  IF level >= -o.max_depth
        THEN [level_dict |-> Occupy(o.level_dict, level, end), count |-> cnt2,
              ret |-> enhanced_feature(ID, start, end, neg_arrowstyle, level)]
        ELSE [level_dict |-> o.level_dict, count |-> cnt2, ret |-> None]

\* variant of the unstranded branch: level 0 keeps the largest end seen
CallUnstrandMax(o, cnt, ID, start, end) ==
    [level_dict |-> Occupy(o.level_dict, 0,
                           IF 0 \in DOMAIN o.level_dict /\ o.level_dict[0] > end
                           THEN o.level_dict[0] ELSE end),
     count |-> Bump(cnt, "unstranded_features"),
     ret |-> enhanced_feature(ID, start, end, unstrand_arrowstyle, 0)]

\* the branch for a feature with no strand
CallUnstrand(o, cnt, ID, start, end) ==
    [level_dict |-> Occupy(o.level_dict, 0, end),
     count |-> Bump(cnt, "unstranded_features"),
     ret |-> enhanced_feature(ID, start, end, unstrand_arrowstyle, 0)]

\* variant of __call__ that does not read filter_pos
CallUnfilteredPos(o, ID, start, end, strand) ==
    LET cnt == Bump(o.count, "all_features")
    IN  IF strand = "+" THEN CallPos(o, cnt, ID, start, end)
        ELSE IF strand = "-" /\ ~o.filter_neg THEN CallNeg(o, cnt, ID, start, end)
        ELSE IF strand = "." /\ ~o.filter_unstrand THEN CallUnstrand(o, cnt, ID, start, end)
        ELSE [level_dict |-> o.level_dict, count |-> cnt, ret |-> None]

\* Level.__call__ : the new level_dict and count, and the value returned
Call(o, ID, start, end, strand) ==
    LET cnt == Bump(o.count, "all_features")
    IN  IF strand = "+" /\ ~o.filter_pos THEN CallPos(o, cnt, ID, start, end)
        ELSE IF strand = "-" /\ ~o.filter_neg THEN CallNeg(o, cnt, ID, start, end)
        ELSE IF strand = "." /\ ~o.filter_unstrand THEN CallUnstrand(o, cnt, ID, start, end)
        ELSE [level_dict |-> o.level_dict, count |-> cnt, ret |-> None]

\* variant of min() that never exceeds 0
SetMinOrZero(S) == CHOOSE x \in S \cup {0} : \A y \in S \cup {0} : x <= y

SetMin(S) == CHOOSE x \in S : \A y \in S : x <= y
SetMax(S) == CHOOSE x \in S : \A y \in S : x >= y

\* the properties min_level, max_level, n_level (read only when level_dict is not empty)
min_level == SetMin(DOMAIN level_dict)
max_level == SetMax(DOMAIN level_dict)
n_level == Cardinality(DOMAIN level_dict)

(***************************************************************************)
(* The leveler as a state machine: construction, then __call__s.           *)
(***************************************************************************)
\* no Alignment constructed from a file, no coverage file written or read
NoFile ==
    /\ d_keys = <<>>
    /\ nbases = 0
    /\ init_min_coverage = DefaultMinCoverage
    /\ outfile = None
    /\ bed = None

\* no call of Alignment() recorded
NoInput == init_fp = None /\ init_args = None

\* no JGV session is modelled
NoSession ==
    /\ reference = None
    /\ annotations = <<>>
    /\ alignments = <<>>
    /\ adds = <<>>
    /\ plot_call = None
    /\ annotation_dict = <<>>
    /\ plot_pc = None

Self == LevelObj(max_depth, offset, filter_pos, filter_neg, filter_unstrand,
                 level_dict, count)

Init ==
    /\ max_depth \in 1..MaxDepth
    /\ offset \in Offsets
    /\ \E f \in Filters :
          /\ filter_pos = f[1]
          /\ filter_neg = f[2]
          /\ filter_unstrand = f[3]
    /\ level_dict = EmptyDict
    /\ count = EmptyCount
    /\ ret = None
    /\ hist = <<>>
    /\ d = NoData
    /\ cov_call = None
    /\ cov_df = None
    /\ cov_wins = <<>>
    /\ NoFile
    /\ NoInput
    /\ NoSession
    /\ exc = ""

Place ==
    /\ Len(hist) < MaxCalls
    /\ \E ID \in IDs, sp \in Spans, strand \in Strands :
          LET r == Call(Self, ID, sp[1], sp[2], strand)
          IN  /\ level_dict' = r.level_dict
              /\ count' = r.count
              /\ ret' = r.ret
              /\ exc' = ""
              /\ hist' = Append(hist, [ID |-> ID, start |-> sp[1], end |-> sp[2],
                                       strand |-> strand, ret |-> r.ret])
    /\ UNCHANGED <<max_depth, offset, filter_pos, filter_neg, filter_unstrand>>
    /\ UNCHANGED <<covVars, fileVars>>
    /\ UNCHANGED inputVars
    /\ UNCHANGED sessionVars

Next == Place

Spec == Init /\ [][Next]_vars

(***************************************************************************)
(* Python floats (IEEE-754 binary64) as interval_coverage uses them:       *)
(* "step = (end-start)/bins", np.arange(start, end, step), "int(i+step)",  *)
(* "l.sum()/step".  A float is [m, e] with value m * 2^e, where m is zero  *)
(* or a 53-bit natural; every operation is the exact result rounded to     *)
(* the nearest such value, ties to even.  Numbers here are non-negative    *)
(* and far from overflow and underflow.  The 53-bit naturals are kept as   *)
(* little-endian sequences of limbs below LimbBase, without leading zeros, *)
(* so that no intermediate value leaves the 32-bit integers of TLC.        *)
(***************************************************************************)
LimbBits == 15
LimbBase == 2 ^ LimbBits
MantBits == 53

RECURSIVE BigTrim(_)
BigTrim(a) ==
    IF a = <<>> THEN a
    ELSE IF a[Len(a)] = 0 THEN BigTrim(SubSeq(a, 1, Len(a) - 1)) ELSE a

Limb(a, i) == IF i <= Len(a) THEN a[i] ELSE 0

RECURSIVE BigFromInt(_)
BigFromInt(n) ==
    IF n = 0 THEN <<>> ELSE <<n % LimbBase>> \o BigFromInt(n \div LimbBase)

RECURSIVE BigToInt(_)
BigToInt(a) == IF a = <<>> THEN 0 ELSE a[1] + LimbBase * BigToInt(Tail(a))

RECURSIVE BigAddC(_, _, _, _)
BigAddC(a, b, i, c) ==
    IF i > Len(a) /\ i > Len(b)
    THEN IF c = 0 THEN <<>> ELSE <<c>>
    ELSE LET t == Limb(a, i) + Limb(b, i) + c
         IN  <<t % LimbBase>> \o BigAddC(a, b, i + 1, t \div LimbBase)

BigAdd(a, b) == BigAddC(a, b, 1, 0)

\* a - b for a >= b
RECURSIVE BigSubC(_, _, _, _)
BigSubC(a, b, i, c) ==
    IF i > Len(a) THEN <<>>
    ELSE LET t == a[i] - Limb(b, i) - c
         IN  IF t < 0 THEN <<t + LimbBase>> \o BigSubC(a, b, i + 1, 1)
                      ELSE <<t>> \o BigSubC(a, b, i + 1, 0)

BigSub(a, b) == BigTrim(BigSubC(a, b, 1, 0))

\* -1, 0, 1 as a < b, a = b, a > b
RECURSIVE BigCmpAt(_, _, _)
BigCmpAt(a, b, i) ==
    IF i = 0 THEN 0
    ELSE IF a[i] < b[i] THEN -1
    ELSE IF a[i] > b[i] THEN 1
    ELSE BigCmpAt(a, b, i - 1)

BigCmp(a, b) ==
    IF Len(a) < Len(b) THEN -1
    ELSE IF Len(a) > Len(b) THEN 1
    ELSE BigCmpAt(a, b, Len(a))

\* a * k for a limb k
RECURSIVE BigMulC(_, _, _, _)
BigMulC(a, k, i, c) ==
    IF i > Len(a)
    THEN IF c = 0 THEN <<>> ELSE <<c>>
    ELSE LET t == a[i] * k + c
         IN  <<t % LimbBase>> \o BigMulC(a, k, i + 1, t \div LimbBase)

BigMulSmall(a, k) == IF k = 0 THEN <<>> ELSE BigMulC(a, k, 1, 0)

BigShiftLimbs(a, n) == IF a = <<>> THEN a ELSE [i \in 1..n |-> 0] \o a

RECURSIVE BigMulAt(_, _, _)
BigMulAt(a, b, j) ==
    IF j > Len(b) THEN <<>>
    ELSE BigAdd(BigShiftLimbs(BigMulSmall(a, b[j]), j - 1), BigMulAt(a, b, j + 1))

BigMul(a, b) == BigMulAt(a, b, 1)

\* a * 2^n
BigShl(a, n) == BigShiftLimbs(BigMulSmall(a, 2 ^ (n % LimbBits)), n \div LimbBits)

\* a \div 2^n
BigShr(a, n) ==
    LET q == n \div LimbBits
        r == n % LimbBits
        t == SubSeq(a, q + 1, Len(a))
    IN  BigTrim([i \in 1..Len(t) |->
                    (t[i] \div (2 ^ r)) + (Limb(t, i + 1) % (2 ^ r)) * (2 ^ (LimbBits - r))])

\* a % 2^n
BigLow(a, n) == BigSub(a, BigShl(BigShr(a, n), n))

RECURSIVE BitLen(_)
BitLen(k) == IF k = 0 THEN 0 ELSE 1 + BitLen(k \div 2)

BigBitLen(a) == IF a = <<>> THEN 0 ELSE LimbBits * (Len(a) - 1) + BitLen(a[Len(a)])

BigIsOdd(a) == a # <<>> /\ a[1] % 2 = 1

\* one digit of the long division: r \div b, for r < b * LimbBase and b with a
\* full top limb; the estimate from the top limbs is never too small
RECURSIVE DivDigitFrom(_, _, _)
DivDigitFrom(r, b, dg) ==
    IF BigCmp(BigMulSmall(b, dg), r) > 0 THEN DivDigitFrom(r, b, dg - 1) ELSE dg

DivDigit(r, b) ==
    IF BigCmp(r, b) < 0 THEN 0
    ELSE LET n == Len(b)
             est == (Limb(r, n + 1) * LimbBase + Limb(r, n)) \div b[n]
         IN  DivDigitFrom(r, b, IF est > LimbBase - 1 THEN LimbBase - 1 ELSE est)

\* the long division of a by b from limb i down, with remainder r and quotient
\* limbs q so far; DivStep takes the digit dg of the remainder r1 extended by a[i]
RECURSIVE DivLimbs(_, _, _, _, _)
RECURSIVE DivStep(_, _, _, _, _, _)
RECURSIVE DivNext(_, _, _, _, _)
DivStep(a, b, i, r1, q, dg) ==
    DivLimbs(a, b, i - 1, BigSub(r1, BigMulSmall(b, dg)), <<dg>> \o q)

DivNext(a, b, i, r1, q) == DivStep(a, b, i, r1, q, DivDigit(r1, b))

DivLimbs(a, b, i, r, q) ==
    IF i = 0 THEN [q |-> BigTrim(q), r |-> r]
    ELSE DivNext(a, b, i, BigTrim(<<a[i]>> \o r), q)

DivUnshift(res, s) == [q |-> res.q, r |-> BigShr(res.r, s)]

DivShifted(an, bn, s) == DivUnshift(DivLimbs(an, bn, Len(an), <<>>, <<>>), s)

DivBy(a, b, s) == DivShifted(BigShl(a, s), BigShl(b, s), s)

\* quotient and remainder of a by b # 0 (schoolbook long division, limb by
\* limb, b shifted so that its top limb is full)
BigDivMod(a, b) == DivBy(a, b, LimbBits - BitLen(b[Len(b)]))

(***************************************************************************)
(* Floats: [m, e] is m * 2^e with m an integer of MantBits bits; zero has   *)
(* m = <<>>.                                                               *)
(***************************************************************************)
FlZero == [m |-> <<>>, e |-> 0]

\* m1 * 2^E for m1 of MantBits or MantBits + 1 bits
FlNorm(m1, E) ==
    IF BigBitLen(m1) > MantBits
    THEN [m |-> BigShr(m1, 1), e |-> E + 1]
    ELSE [m |-> m1, e |-> E]

\* kept or kept + 1: up when the dropped part is above half (c > 0), or is half
\* (c = 0) and something lies below it or kept is odd
FlRoundUp(kept, c, sticky) ==
    IF c > 0 \/ (c = 0 /\ (sticky \/ BigIsOdd(kept))) THEN BigAdd(kept, <<1>>) ELSE kept

\* FlRound for N # <<>> of len bits
FlRoundAt(N, E, sticky, len) ==
    IF len <= MantBits
    THEN [m |-> BigShl(N, MantBits - len), e |-> E - (MantBits - len)]
    ELSE FlNorm(FlRoundUp(BigShr(N, len - MantBits),
                          BigCmp(BigLow(N, len - MantBits),
                                 BigShl(<<1>>, len - MantBits - 1)),
                          sticky),
                E + (len - MantBits))

\* the float nearest to (N + f) * 2^E, where 0 < f < 1 if sticky, else f = 0
\* (N has at least MantBits + 2 bits when sticky); ties go to the even mantissa
FlRound(N, E, sticky) ==
    IF N = <<>> THEN FlZero ELSE FlRoundAt(N, E, sticky, BigBitLen(N))

\* float(n) for an integer n >= 0
FlFromInt(n) == FlRound(BigFromInt(n), 0, FALSE)

\* x + y for x, y # 0, aligned at the exponent em
FlAddAt(x, y, em) ==
    FlRound(BigAdd(BigShl(x.m, x.e - em), BigShl(y.m, y.e - em)), em, FALSE)

\* x + y
FlAdd(x, y) ==
    IF x.m = <<>> THEN y
    ELSE IF y.m = <<>> THEN x
    ELSE FlAddAt(x, y, IF x.e < y.e THEN x.e ELSE y.e)

\* x - y for x >= y > 0, aligned at the exponent em
FlSubAt(x, y, em) ==
    FlRound(BigSub(BigShl(x.m, x.e - em), BigShl(y.m, y.e - em)), em, FALSE)

\* x - y for x >= y
FlSub(x, y) ==
    IF y.m = <<>> THEN x
    ELSE FlSubAt(x, y, IF x.e < y.e THEN x.e ELSE y.e)

\* x * y
FlMul(x, y) ==
    IF x.m = <<>> \/ y.m = <<>> THEN FlZero
    ELSE FlRound(BigMul(x.m, y.m), x.e + y.e, FALSE)

\* the quotient dm.q with remainder dm.r, scaled by 2^E, as a float
FlQuot(dm, E) == FlRound(dm.q, E, dm.r # <<>>)

\* x / y for y # 0
FlDiv(x, y) ==
    IF x.m = <<>> THEN FlZero
    ELSE FlQuot(BigDivMod(BigShl(x.m, MantBits + 2), y.m), x.e - y.e - (MantBits + 2))

\* int(x): the integer part
FlTrunc(x) ==
    IF x.m = <<>> THEN 0
    ELSE IF x.e >= 0 THEN BigToInt(BigShl(x.m, x.e))
    ELSE BigToInt(BigShr(x.m, -x.e))

\* whether x is an integer
FlIsInt(x) == x.m = <<>> \/ x.e >= 0 \/ BigLow(x.m, -x.e) = <<>>

\* ceil(x)
FlCeil(x) == IF FlIsInt(x) THEN FlTrunc(x) ELSE FlTrunc(x) + 1

(***************************************************************************)
(* np.arange(start, stop, step) for integers start < stop and a float      *)
(* step > 0: ceil((stop - start) / step) values; the first is start, the   *)
(* second start + step, and value k is start + k * delta where delta is    *)
(* the difference of the first two.                                        *)
(***************************************************************************)
ArangeLen(start, stop, step) == FlCeil(FlDiv(FlFromInt(stop - start), step))

\* the n values from their first two and the difference delta of these
ArangeFill(first, next, delta, n) ==
    [k \in 1..n |->
        IF k = 1 THEN first
        ELSE IF k = 2 THEN next
        ELSE FlAdd(first, FlMul(FlFromInt(k - 1), delta))]

ArangeNext(first, next, n) == ArangeFill(first, next, FlSub(next, first), n)

ArangeFrom(first, step, n) == ArangeNext(first, FlAdd(first, step), n)

\* np.arange(0, stop - start, step): the values relative to start
ArangeRelative(start, stop, step) ==
    ArangeFrom(FlZero, step, ArangeLen(start, stop, step))

Arange(start, stop, step) ==
    ArangeFrom(FlFromInt(start), step, ArangeLen(start, stop, step))

(***************************************************************************)
(* Alignment.interval_coverage.                                            *)
(***************************************************************************)
\* largest start of a queried interval
MaxStart == 1
\* largest width end - start of a queried interval
MaxWidth == 8
\* largest width of the intervals queried under SpecWide
WideWidth == 15
\* reference ids asked for: "chr1" is in self.d, "chrU" is not
Refids == {"chr1", "chrU"}
\* values of bin_repr_fun ("median" stands for any name that is none of the three)
Funs == {"max", "sum", "mean", "median"}

\* a pd.Series of depths indexed by position
EmptySeries == [p \in {} |-> 0]
\* the values of a DataFrame cell: an integer, a float, or NaN (never assigned)
IntV(n) == [int |-> n]
NaN == [nan |-> TRUE]

\* the DataFrame after the passes asg of a loop, pass k assigning
\* "df.loc[asg[k].idx, strand] = asg[k].val[strand]" for the strands whose value
\* is not NaN: an assignment to a label no row has yet appends a row (its other
\* cell NaN), an assignment to an existing label overwrites the cell in place
DataFrame(asg) ==
    LET n == Len(asg)
        assigns(k) == \E st \in {"+", "-"} : asg[k].val[st] # NaN
        firsts == SelectSeq([k \in 1..n |-> k],
                            LAMBDA k : /\ assigns(k)
                                       /\ \A j \in 1..(k - 1) :
                                             assigns(j) => asg[j].idx # asg[k].idx)
        cell(idx, st) ==
            LET js == {j \in 1..n : asg[j].idx = idx /\ asg[j].val[st] # NaN}
            IN  IF js = {} THEN NaN ELSE asg[SetMax(js)].val[st]
    IN  [r \in 1..Len(firsts) |->
            [idx |-> asg[firsts[r]].idx,
             val |-> [st \in {"+", "-"} |-> cell(asg[firsts[r]].idx, st)]]]

\* "ser[(ser.index >= winstart) & (ser.index < winend)]"
SeriesWindow(ser, winstart, winend) ==
    [p \in {q \in DOMAIN ser : q >= winstart /\ q < winend} |-> ser[p]]

\* l.max()
SeriesMax(l) == SetMax({l[p] : p \in DOMAIN l})

\* l.sum()
RECURSIVE SeriesSum(_)
SeriesSum(l) ==
    IF DOMAIN l = {} THEN 0
    ELSE LET p == SetMin(DOMAIN l)
         IN  l[p] + SeriesSum([q \in (DOMAIN l) \ {p} |-> l[q]])

\* l.sum() / l.count(): the sum over the number of recorded positions
MeanOfCount(l, step) == FlDiv(FlFromInt(SeriesSum(l)), FlFromInt(Cardinality(DOMAIN l)))

\* "l.sum()/step"
MeanOf(l, step) == FlDiv(FlFromInt(SeriesSum(l)), step)

\* the chain with the reducers of "max" and "sum" exchanged
BinValueSwapped(l, fun, step) ==
    IF DOMAIN l = {} THEN IntV(0)
    ELSE IF fun = "max" THEN IntV(SeriesSum(l))
    ELSE IF fun = "sum" THEN IntV(SeriesMax(l))
    ELSE IF fun = "mean" THEN MeanOf(l, step)
    ELSE NaN

\* the if/elif chain on the positions l of one strand in one window: the value
\* assigned to df.loc[winstart, strand] (NaN: no branch taken, nothing assigned,
\* when the window is not empty and bin_repr_fun is none of the three)
BinValue(l, fun, step) ==
    IF DOMAIN l = {} THEN IntV(0)
    ELSE IF fun = "max" THEN IntV(SeriesMax(l))
    ELSE IF fun = "sum" THEN IntV(SeriesSum(l))
    ELSE IF fun = "mean" THEN MeanOf(l, step)
    ELSE NaN

\* "winstart = int(i)", "winend = int(i+step)" for each i of np.arange
Windows(arr, step) ==
    [k \in 1..Len(arr) |-> <<FlTrunc(arr[k]), FlTrunc(FlAdd(arr[k], step))>>]

\* "for i in np.arange (start, end, step)" when refid is in self.d: what the
\* passes assign, "for strand in ["+","-"]"
BinLoop(ref, wins, step, fun) ==
    [k \in 1..Len(wins) |->
        [idx |-> wins[k][1],
         val |-> [st \in {"+", "-"} |->
                     BinValue(SeriesWindow(ref[st], wins[k][1], wins[k][2]), fun, step)]]]

\* "for i in np.arange (start, end, step)" when refid is not in self.d: what
\* the passes assign, "df.loc[int(i), strand] = 0"
ZeroLoop(arr) ==
    [k \in 1..Len(arr) |->
        [idx |-> FlTrunc(arr[k]), val |-> [st \in {"+", "-"} |-> IntV(0)]]]

\* "if bins > end-start: bins = end-start"
AdjustBins(start, end, bins) == IF bins > end - start THEN end - start ELSE bins

\* "step = (end-start)/bins"
StepOf(start, end, bins) == FlDiv(FlFromInt(end - start), FlFromInt(bins))

\* the loop over a known reference: the DataFrame and the windows of its passes
KnownLoop(ref, wins, step, fun) ==
    [df |-> DataFrame(BinLoop(ref, wins, step, fun)), wins |-> wins]

\* the loop over an unknown reference: a pass has a label and no window
UnknownLoop(arr) ==
    [df |-> DataFrame(ZeroLoop(arr)),
     wins |-> [k \in 1..Len(arr) |-> <<FlTrunc(arr[k]), FlTrunc(arr[k])>>]]

\* "if not refid in self.refid_list: ... return df", else the loop on self.d[refid]
CoverageOver(dd, refid, fun, step, arr) ==
    IF refid \notin DOMAIN dd
    THEN UnknownLoop(arr)
    ELSE KnownLoop(dd[refid], Windows(arr, step), step, fun)

\* interval_coverage once step is known
CoverageBy(dd, refid, start, end, fun, step) ==
    CoverageOver(dd, refid, fun, step, Arange(start, end, step))

\* interval_coverage(refid, start, end, bins, bin_repr_fun) for start < end and
\* bins >= 1: the DataFrame returned, with the windows of the passes of its loop
interval_coverage(dd, refid, start, end, bins, fun) ==
    CoverageBy(dd, refid, start, end, fun, StepOf(start, end, AdjustBins(start, end, bins)))

(***************************************************************************)
(* The coverage binner as a state machine: an Alignment holding parsed     *)
(* coverage, then one interval_coverage call.                              *)
(***************************************************************************)
\* the coverage of "chr1" an Alignment is taken to hold, per strand
PlusSeries == {EmptySeries, (7 :> 5), (6 :> 5 @@ 7 :> 9)}
MinusSeries == {EmptySeries, (7 :> 6)}
CovData == {("chr1" :> ("+" :> sp @@ "-" :> sm)) : sp \in PlusSeries, sm \in MinusSeries}
\* under SpecWide: coverage recorded at the far end of the reference only
WideData == {("chr1" :> ("+" :> (15 :> 5 @@ 16 :> 7) @@ "-" :> (16 :> 6)))}

\* an Alignment holding one of the coverages of data, and no Level in use
AlignmentWith(data) ==
    /\ max_depth = 100
    /\ offset = 10
    /\ filter_pos = FALSE
    /\ filter_neg = FALSE
    /\ filter_unstrand = FALSE
    /\ level_dict = EmptyDict
    /\ count = EmptyCount
    /\ ret = None
    /\ hist = <<>>
    /\ d \in data
    /\ cov_call = None
    /\ cov_df = None
    /\ cov_wins = <<>>
    /\ NoFile
    /\ NoInput
    /\ NoSession
    /\ exc = ""

\* the call is recorded with the DataFrame r.df it returns
Returns(call, r) ==
    /\ cov_call' = call
    /\ cov_df' = r.df
    /\ cov_wins' = r.wins
    /\ exc' = ""

\* one call of interval_coverage with start < end <= start + maxwidth
IntervalCoverageCall(maxwidth) ==
    /\ cov_call = None
    /\ \E refid \in Refids, start \in 0..MaxStart, width \in 1..maxwidth,
          bins \in 1..(maxwidth + 1), fun \in Funs :
          Returns([refid |-> refid, start |-> start, end |-> start + width,
                   bins |-> bins, fun |-> fun],
                  interval_coverage(d, refid, start, start + width, bins, fun))
    /\ UNCHANGED <<d>>
    /\ UNCHANGED <<levelVars, fileVars>>
    /\ UNCHANGED inputVars
    /\ UNCHANGED sessionVars

InitCov == AlignmentWith(CovData)

IntervalCoverage == IntervalCoverageCall(MaxWidth)

NextCov == IntervalCoverage

SpecCov == InitCov /\ [][NextCov]_vars

\* interval_coverage for start >= end and bins >= 1.  "bins > end-start" holds,
\* so bins = end - start <= 0.  For start = end, "step = (end-start)/bins" is
\* 0/0 and raises ZeroDivisionError.  For start > end, step is the quotient of
\* end - start by itself, 1.0, and np.arange(start, end, 1.0) has
\* ceil((end - start)/1.0) < 0 elements, that is none: neither loop has a pass
\* and the empty DataFrame is returned.
interval_coverage_backward(dd, refid, start, end, bins, fun) ==
    IF AdjustBins(start, end, bins) = 0
    THEN [exc |-> "ZeroDivisionError", df |-> None, wins |-> <<>>]
    ELSE [exc |-> "", df |-> <<>>, wins |-> <<>>]

\* one call of interval_coverage with end <= start
IntervalCoverageBackward ==
    /\ cov_call = None
    /\ \E refid \in Refids, end \in 0..MaxWidth, back \in 0..MaxStart,
          bins \in 1..(MaxStart + 2), fun \in Funs :
          LET r == interval_coverage_backward(d, refid, end + back, end, bins, fun)
          IN  /\ cov_call' = [refid |-> refid, start |-> end + back, end |-> end,
                              bins |-> bins, fun |-> fun]
              /\ cov_df' = r.df
              /\ cov_wins' = r.wins
              /\ exc' = r.exc
    /\ UNCHANGED <<d>>
    /\ UNCHANGED <<levelVars, fileVars>>
    /\ UNCHANGED inputVars
    /\ UNCHANGED sessionVars

NextInv == IntervalCoverageBackward

SpecInv == InitCov /\ [][NextInv]_vars

InitWide == AlignmentWith(WideData)

IntervalCoverageWide == IntervalCoverageCall(WideWidth)

NextWide == IntervalCoverageWide

SpecWide == InitWide /\ [][NextWide]_vars

(***************************************************************************)
(* The coverage file: an Alignment built from the reads of a BAM/SAM file  *)
(* (_bam_parser, _clean_d), written out by _write_coverage_file and read   *)
(* back by _bed_parser.  Python strings that reach the file are sequences  *)
(* of characters, the file is the sequence of the characters written; gzip *)
(* is taken to give back on reading the text that was written.  A Counter  *)
(* or a Series is the sequence of its <<position, coverage>> items in      *)
(* iteration order; self.d is d, with the order of its keys in d_keys.     *)
(***************************************************************************)
\* number of reads of the BAM/SAM file
MaxReads == 3
\* the default of buf_size
DefaultBufSize == 8192

TAB == "\t"
NL == "\n"
DigitChars == <<"0", "1", "2", "3", "4", "5", "6", "7", "8", "9">>

chr1 == <<"c", "h", "r", "1">>
chr2 == <<"c", "h", "r", "2">>
FileRefids == {chr1, chr2}
\* the positions a read covers (get_reference_positions)
ReadPositions == {<<9, 10>>, <<10, 11>>}
Reads == [reference_name : FileRefids, is_reverse : BOOLEAN, positions : ReadPositions]
RECURSIVE SeqsUpTo(_, _)
SeqsUpTo(S, n) ==
    IF n = 0 THEN {<<>>}
    ELSE SeqsUpTo(S, n - 1) \cup {Append(s, x) : s \in {t \in SeqsUpTo(S, n - 1) : Len(t) = n - 1}, x \in S}
MinCoverages == {1, 2}
RefidLists == {<<>>, <<chr1>>}
BufSizes == {1, 2, 3, DefaultBufSize}

\* "x in l" for a list l
InList(x, l) == \E k \in 1..Len(l) : l[k] = x

\* "{}".format(n) for an integer n >= 0
RECURSIVE FormatInt(_)
FormatInt(n) ==
    IF n < 10 THEN <<DigitChars[n + 1]>>
    ELSE Append(FormatInt(n \div 10), DigitChars[(n % 10) + 1])

DigitValue(c) == (CHOOSE k \in 1..10 : DigitChars[k] = c) - 1
\* whether int(s) returns for a field s: here, for a non-empty run of digits
\* (the fields _write_coverage_file writes carry no sign, blank or underscore)
IsInt(s) == Len(s) > 0 /\ \A k \in 1..Len(s) : \E n \in 1..10 : DigitChars[n] = s[k]
\* int(s) for a run of digits
RECURSIVE ParseInt(_)
ParseInt(s) ==
    IF Len(s) = 0 THEN 0
    ELSE 10 * ParseInt(SubSeq(s, 1, Len(s) - 1)) + DigitValue(s[Len(s)])

\* the index of the first c in s, Len(s) + 1 when there is none
RECURSIVE FindFrom(_, _, _)
FindFrom(s, c, k) ==
    IF k > Len(s) \/ s[k] = c THEN k ELSE FindFrom(s, c, k + 1)

\* s.split(sep) for a one-character sep
RECURSIVE Split(_, _)
Split(s, sep) ==
    LET k == FindFrom(s, sep, 1)
    IN  IF k > Len(s) THEN <<s>>
        ELSE <<SubSeq(s, 1, k - 1)>> \o Split(SubSeq(s, k + 1, Len(s)), sep)

\* "for line in fin": the lines of a text, each with its newline
RECURSIVE Lines(_)
Lines(text) ==
    LET k == FindFrom(text, NL, 1)
    IN  IF Len(text) = 0 THEN <<>>
        ELSE IF k >= Len(text) THEN <<text>>
        ELSE <<SubSeq(text, 1, k)>> \o Lines(SubSeq(text, k + 1, Len(text)))

\* a new entry of d: {"nbases":0, "+":Counter(), "-":Counter()}
NewEntry == ("nbases" :> 0 @@ "+" :> <<>> @@ "-" :> <<>>)

\* the index of position in a Counter, 0 when it is not a key
CounterIndex(c, position) ==
    IF \E k \in 1..Len(c) : c[k][1] = position
    THEN CHOOSE k \in 1..Len(c) : c[k][1] = position
    ELSE 0
\* "c[position] = coverage"
CounterSet(c, position, coverage) ==
    LET k == CounterIndex(c, position)
    IN  IF k = 0 THEN Append(c, <<position, coverage>>)
        ELSE [c EXCEPT ![k] = <<position, coverage>>]
\* "c[position] += 1" (a missing key of a Counter reads 0)
CounterInc(c, position) ==
    LET k == CounterIndex(c, position)
    IN  IF k = 0 THEN Append(c, <<position, 1>>)
        ELSE [c EXCEPT ![k] = <<position, c[k][2] + 1>>]

\* the state of a parser: d, the order of its keys, self.nbases, and the
\* exception raised ("" while none is)
ParserStart == [d |-> NoData, d_keys |-> <<>>, nbases |-> 0, exc |-> ""]

\* "if not refid in d: d[refid] = {...}"
EnsureRef(st, refid) ==
    IF refid \in DOMAIN st.d THEN st
    ELSE [st EXCEPT !.d = (refid :> NewEntry) @@ st.d,
                    !.d_keys = Append(st.d_keys, refid)]

\* "for position in line.get_reference_positions(): d[refid][strand][position] += 1"
RECURSIVE BamPositions(_, _, _, _)
BamPositions(dd, refid, strand, positions) ==
    IF positions = <<>> THEN dd
    ELSE BamPositions([dd EXCEPT ![refid][strand] = CounterInc(@, positions[1])],
                      refid, strand, Tail(positions))

\* one pass of the loop of _bam_parser
BamTally(st, line) ==
    [st EXCEPT !.d = BamPositions(st.d, line.reference_name,
                                  IF line.is_reverse THEN "-" ELSE "+",
                                  line.positions)]
BamLine(st, line, refid_list) ==
    IF refid_list = <<>> \/ InList(line.reference_name, refid_list)
    THEN BamTally(EnsureRef(st, line.reference_name), line)
    ELSE st

RECURSIVE BamLoop(_, _, _)
BamLoop(st, bam, refid_list) ==
    IF bam = <<>> THEN st
    ELSE BamLoop(BamLine(st, bam[1], refid_list), Tail(bam), refid_list)

\* variant of the threshold test: "if coverage > min_coverage"
RetainedAbove(c, min_coverage) == SelectSeq(c, LAMBDA it : it[2] > min_coverage)

\* "if coverage >= min_coverage: s[position] = coverage"
Retained(c, min_coverage) == SelectSeq(c, LAMBDA it : it[2] >= min_coverage)

\* the sum of the coverages of a sequence of items
RECURSIVE ItemSum(_)
ItemSum(c) == IF c = <<>> THEN 0 ELSE c[1][2] + ItemSum(Tail(c))

\* sort_index: the items in ascending order of position
RECURSIVE SortIndex(_)
InsertItem(s, it) ==
    SelectSeq(s, LAMBDA x : x[1] <= it[1]) \o <<it>> \o SelectSeq(s, LAMBDA x : x[1] > it[1])
SortIndex(c) ==
    IF c = <<>> THEN <<>> ELSE InsertItem(SortIndex(SubSeq(c, 1, Len(c) - 1)), c[Len(c)])

\* _clean_d for one reference: both strands filtered and sorted, the
\* coverages retained added to its nbases
CleanEntry(e, min_coverage) ==
    ("nbases" :> e["nbases"] + ItemSum(Retained(e["+"], min_coverage))
                             + ItemSum(Retained(e["-"], min_coverage))
     @@ "+" :> SortIndex(Retained(e["+"], min_coverage))
     @@ "-" :> SortIndex(Retained(e["-"], min_coverage)))

\* what _clean_d adds to self.nbases
RECURSIVE CleanTotal(_, _, _)
CleanTotal(dd, keys, min_coverage) ==
    IF keys = <<>> THEN 0
    ELSE ItemSum(Retained(dd[keys[1]]["+"], min_coverage))
         + ItemSum(Retained(dd[keys[1]]["-"], min_coverage))
         + CleanTotal(dd, Tail(keys), min_coverage)

\* _clean_d
clean_d(st, min_coverage) ==
    IF st.exc # "" THEN st
    ELSE [st EXCEPT !.d = [refid \in DOMAIN st.d |-> CleanEntry(st.d[refid], min_coverage)],
                    !.nbases = @ + CleanTotal(st.d, st.d_keys, min_coverage)]

\* _bam_parser on the reads bam, after "self.nbases = 0"
bam_parser(bam, min_coverage, refid_list) ==
    clean_d(BamLoop(ParserStart, bam, refid_list), min_coverage)

\* the line written for item i of the file
CoverageLine(refid, position, i, coverage, strand) ==
    refid \o <<TAB>> \o FormatInt(position) \o <<TAB>> \o FormatInt(position)
          \o <<TAB, "p", "o", "s">> \o FormatInt(i) \o <<TAB>> \o FormatInt(coverage)
          \o <<TAB, strand, NL>>

\* the items the loops of _write_coverage_file go through, in order
StrandItems(refid, ser, strand) ==
    [k \in 1..Len(ser) |-> [refid |-> refid, position |-> ser[k][1],
                            coverage |-> ser[k][2], strand |-> strand]]
RECURSIVE WriterItems(_, _)
WriterItems(dd, keys) ==
    IF keys = <<>> THEN <<>>
    ELSE StrandItems(keys[1], dd[keys[1]]["+"], "+")
         \o StrandItems(keys[1], dd[keys[1]]["-"], "-")
         \o WriterItems(dd, Tail(keys))

\* the body of the innermost loop: w is [i, str_buf, out]
WriterPass(w, it, buf_size) ==
    LET i == w.i + 1
        str_buf == w.str_buf \o CoverageLine(it.refid, it.position, i, it.coverage, it.strand)
    IN  IF i % buf_size = 0
        THEN [i |-> i, str_buf |-> <<>>, out |-> w.out \o str_buf]
        ELSE [i |-> i, str_buf |-> str_buf, out |-> w.out]

RECURSIVE WriterLoop(_, _, _)
WriterLoop(w, items, buf_size) ==
    IF items = <<>> THEN w
    ELSE WriterLoop(WriterPass(w, items[1], buf_size), Tail(items), buf_size)

\* _write_coverage_file: the text of the file, the last "out.write(str_buf)" done
write_coverage_file(dd, keys, buf_size) ==
    LET w == WriterLoop([i |-> 0, str_buf |-> <<>>, out |-> <<>>],
                        WriterItems(dd, keys), buf_size)
    IN  w.out \o w.str_buf

Raise(st, e) == [st EXCEPT !.exc = e]

\* "d[refid][strand][position] = coverage" and the two "nbases += coverage"
BedStore(st, refid, position, coverage, strand) ==
    [st EXCEPT !.d[refid][strand] = CounterSet(@, position, coverage),
               !.d[refid]["nbases"] = @ + coverage,
               !.nbases = @ + coverage]

\* the fields of a line taken out of sl, an entry for refid being in d
BedFields(st, sl) ==
    IF Len(sl) < 2 THEN Raise(st, "IndexError")
    ELSE IF ~IsInt(sl[2]) THEN Raise(st, "ValueError")
    ELSE IF Len(sl) < 5 THEN Raise(st, "IndexError")
    ELSE IF ~IsInt(sl[5]) THEN Raise(st, "ValueError")
    ELSE IF Len(sl) < 6 THEN Raise(st, "IndexError")
    ELSE IF sl[6] = <<"n", "b", "a", "s", "e", "s">> THEN Raise(st, "TypeError")
    ELSE IF sl[6] \notin {<<"+">>, <<"-">>} THEN Raise(st, "KeyError")
    ELSE BedStore(st, sl[1], ParseInt(sl[2]), ParseInt(sl[5]), sl[6][1])

\* one pass of the loop of _bed_parser, sl being line[0:-1].split("\t")
BedSplit(st, sl, refid_list) ==
    IF refid_list = <<>> \/ InList(sl[1], refid_list)
    THEN BedFields(EnsureRef(st, sl[1]), sl)
    ELSE st
BedLine(st, line, refid_list) ==
    IF st.exc # "" THEN st
    ELSE BedSplit(st, Split(SubSeq(line, 1, Len(line) - 1), TAB), refid_list)

RECURSIVE BedLoop(_, _, _)
BedLoop(st, fin, refid_list) ==
    IF fin = <<>> THEN st
    ELSE BedLoop(BedLine(st, fin[1], refid_list), Tail(fin), refid_list)

\* _bed_parser on the text of a file, after "self.nbases = 0"
bed_parser(text, min_coverage, refid_list) ==
    clean_d(BedLoop(ParserStart, Lines(text), refid_list), min_coverage)

\* Alignment(fp) for a BAM/SAM file of at most MaxReads reads
Constructed(st, mc) ==
    /\ d = st.d
    /\ d_keys = st.d_keys
    /\ nbases = st.nbases
    /\ init_min_coverage = mc

InitFile ==
    /\ max_depth = 100
    /\ offset = 10
    /\ filter_pos = FALSE
    /\ filter_neg = FALSE
    /\ filter_unstrand = FALSE
    /\ level_dict = EmptyDict
    /\ count = EmptyCount
    /\ ret = None
    /\ hist = <<>>
    /\ cov_call = None
    /\ cov_df = None
    /\ cov_wins = <<>>
    /\ exc = ""
    /\ \E bam \in SeqsUpTo(Reads, MaxReads), mc \in MinCoverages, refid_list \in RefidLists :
          Constructed(bam_parser(bam, mc, refid_list), mc)
    /\ outfile = None
    /\ bed = None
    /\ NoInput
    /\ NoSession

\* self._write_coverage_file(outfp, buf_size)
WriteCoverageFile ==
    /\ outfile = None
    /\ \E buf_size \in BufSizes :
          outfile' = [buf_size |-> buf_size,
                      text |-> write_coverage_file(d, d_keys, buf_size)]
    /\ exc' = ""
    /\ UNCHANGED <<d, d_keys, nbases, init_min_coverage, bed>>
    /\ UNCHANGED <<levelVars, cov_call, cov_df, cov_wins>>
    /\ UNCHANGED inputVars
    /\ UNCHANGED sessionVars

\* what Alignment(outfp, min_coverage, refid_list) leaves for the file written
BedResult(st, mc, refid_list) ==
    /\ bed' = (IF st.exc = ""
               THEN [d |-> st.d, d_keys |-> st.d_keys, nbases |-> st.nbases,
                     min_coverage |-> mc, refid_list |-> refid_list]
               ELSE None)
    /\ exc' = st.exc

BedParse ==
    /\ outfile # None
    /\ bed = None
    /\ \E mc \in MinCoverages, refid_list \in RefidLists :
          BedResult(bed_parser(outfile.text, mc, refid_list), mc, refid_list)
    /\ UNCHANGED <<d, d_keys, nbases, init_min_coverage, outfile>>
    /\ UNCHANGED <<levelVars, cov_call, cov_df, cov_wins>>
    /\ UNCHANGED inputVars
    /\ UNCHANGED sessionVars

NextFile == WriteCoverageFile \/ BedParse

SpecFile == InitFile /\ [][NextFile]_vars

(***************************************************************************)
(* The constructor of Alignment on a file:    a BAM/SAM file is its reads, *)
(* a coverage BED file is its text (with the rows the text was made of),   *)
(* a file with another extension has neither.                              *)
(***************************************************************************)
\* number of lines of a coverage BED file given to the constructor
MaxLines == 2

\* the rows of a coverage BED file: any order, depths on both sides of the
\* thresholds, a position possibly given twice
BedRows == [refid : FileRefids, position : {9, 10}, coverage : {1, 2}, strand : {"+", "-"}]

\* the text of the file holding those rows, numbered from 1
BedText(rows) ==
    WriterLoop([i |-> 0, str_buf |-> <<>>, out |-> <<>>], rows, DefaultBufSize).str_buf

InputFiles ==
    {[ext |-> "bam", reads |-> bam] : bam \in SeqsUpTo(Reads, MaxReads)}
    \cup {[ext |-> "bed", rows |-> rows, text |-> BedText(rows)] :
             rows \in SeqsUpTo(BedRows, MaxLines)}
    \cup {[ext |-> "txt"]}

\* the branches of __init__ on self.ext, after "self.nbases = 0"
init(file, min_coverage, refid_list) ==
    IF file.ext \in {"bam", "sam"} THEN bam_parser(file.reads, min_coverage, refid_list)
    ELSE IF file.ext = "bed" THEN bed_parser(file.text, min_coverage, refid_list)
    ELSE Raise(ParserStart, "ValueError")

\* a file, and no Alignment yet
InitInput ==
    /\ max_depth = 100
    /\ offset = 10
    /\ filter_pos = FALSE
    /\ filter_neg = FALSE
    /\ filter_unstrand = FALSE
    /\ level_dict = EmptyDict
    /\ count = EmptyCount
    /\ ret = None
    /\ hist = <<>>
    /\ d = NoData
    /\ cov_call = None
    /\ cov_df = None
    /\ cov_wins = <<>>
    /\ NoFile
    /\ init_fp \in InputFiles
    /\ init_args = None
    /\ NoSession
    /\ exc = ""

\* what Alignment(fp, min_coverage, refid_list) leaves
InitResult(st, mc, refid_list) ==
    /\ d' = st.d
    /\ d_keys' = st.d_keys
    /\ nbases' = st.nbases
    /\ init_min_coverage' = mc
    /\ init_args' = [min_coverage |-> mc, refid_list |-> refid_list]
    /\ exc' = st.exc

Construct ==
    /\ init_args = None
    /\ \E mc \in MinCoverages, refid_list \in RefidLists :
          InitResult(init(init_fp, mc, refid_list), mc, refid_list)
    /\ UNCHANGED <<init_fp, outfile, bed>>
    /\ UNCHANGED <<levelVars, cov_call, cov_df, cov_wins>>
    /\ UNCHANGED sessionVars

NextInput == Construct

SpecInput == InitInput /\ [][NextInput]_vars

(***************************************************************************)
(* JGV.interval_plot over the annotation tracks of a session.  An          *)
(* Annotation is [name, ext, df], df being the rows of its file in the     *)
(* order of the file (the constructor does not sort them).  A row is       *)
(* [refid, start, end, strand, ID, type].                                  *)
(***************************************************************************)
MaxRows == 2

DefaultMaxDepth == 100

DefaultOffset == 10

DefaultMaxFeatures == 500

OffsetDivisor == 400

\* the feature types, in the order groupby("type") yields them
TypeOrder == <<"exon", "gene", "unknown">>

FeatureSpans == {<<0, 10>>, <<5, 15>>}

FeatureRows ==
    {[refid |-> chr1, start |-> sp[1], end |-> sp[2], strand |-> strand,
      ID |-> "f", type |-> type] :
        sp \in FeatureSpans, strand \in {"+", "-", "?"}, type \in {"exon", "gene"}}

\* a GFF3 track with any rows, and a BED track (every feature of type "unknown")
GffTracks == {[name |-> "gff", ext |-> "gff3", df |-> df] : df \in SeqsUpTo(FeatureRows, MaxRows)}

BedTrack ==
    [name |-> "bed", ext |-> "bed",
     df |-> <<[refid |-> chr1, start |-> 5, end |-> 15, strand |-> "+",
               ID |-> "f", type |-> "unknown"]>>]

PlotRefids == {chr1, chr2}

PlotWindows == {<<0, 30>>, <<12, 30>>, <<30, 12>>}

PlotFeatureTypes == {<<>>, <<"exon">>}

PlotMaxFeatures == {DefaultMaxFeatures, 1}

\* the rows of a table on the indexes idx, in that order
Take(rows, idx) == [k \in 1..Len(idx) |-> rows[idx[k]]]

\* the arrangements of n distinct indexes among 1..len
Arrangements(len, n) ==
    {f \in [1..n -> 1..len] : \A j, k \in 1..n : j # k => f[j] # f[k]}

\* DataFrame.sample(n): n rows drawn at random, in the order drawn
sample(sdf, n) == {Take(sdf, f) : f \in Arrangements(Len(sdf), n)}

\* the order of sort_values(by=["refid", "start", "end"])
KeyLeq(a, b) == a.start < b.start \/ (a.start = b.start /\ a.end <= b.end)

\* mutation of sort_values: the table is left as it is
SortValuesNot(df) == {df}

\* sort_values(by=["refid", "start", "end"]) on the rows of one refid: the rows
\* in ascending order of (start, end), rows of equal key in any order
sort_values(df) ==
    {sorted \in {Take(df, f) : f \in Arrangements(Len(df), Len(df))} :
        \A j, k \in 1..Len(sorted) : j < k => KeyLeq(sorted[j], sorted[k])}

\* the loop over groupby("type") of interval_features: the tables select_list
\* can hold, concatenated
RECURSIVE SelectList(_, _, _, _)
SelectList(df, types, feature_types, max_features_per_type) ==
    IF types = <<>> THEN {<<>>}
    ELSE LET sdf == SelectSeq(df, LAMBDA r : r.type = types[1])
             picks ==
                 IF sdf = <<>> THEN {<<>>}
                 ELSE IF ~(feature_types = <<>> \/ InList(types[1], feature_types))
                 THEN {<<>>}
                 ELSE IF max_features_per_type # 0 /\ Len(sdf) > max_features_per_type
                 THEN sample(sdf, max_features_per_type)
                 ELSE {sdf}
         IN  {p \o r : p \in picks,
                       r \in SelectList(df, Tail(types), feature_types,
                                        max_features_per_type)}

\* Annotation.interval_features: the tables it can return (feature_types is
\* <<>> when it is not given)
interval_features(a, refid, start, end, feature_types, max_features_per_type) ==
    IF \A k \in 1..Len(a.df) : a.df[k].refid # refid THEN {<<>>}
    ELSE IF feature_types # <<>> /\ a.ext = "bed" THEN {<<>>}
    ELSE LET df == SelectSeq(a.df, LAMBDA r : r.refid = refid /\ r.end > start
                                                /\ r.start < end)
         IN  UNION {IF sel = <<>> THEN {<<>>} ELSE sort_values(sel) :
                       sel \in SelectList(df, TypeOrder, feature_types,
                                          max_features_per_type)}

\* the keys of track_df.groupby("type"), in order
GroupTypes(track_df) ==
    SelectSeq(TypeOrder, LAMBDA type : \E k \in 1..Len(track_df) : track_df[k].type = type)

\* feature_df: the rows of group g of a table, in the order of the table
FeatureDf(track_df, g) ==
    SelectSeq(track_df, LAMBDA r : r.type = GroupTypes(track_df)[g])

\* the position of the layout loop at the start of track t (None after the last)
Goto(dict, t) ==
    IF t > Len(dict) THEN None
    ELSE [track |-> t, group |-> 0, level |-> FALSE, row |-> 0]

\* the tables of annotation_dict for the tracks tracks[t..]
RECURSIVE AnnotationDicts(_, _, _)
AnnotationDicts(tracks, t, args) ==
    IF t > Len(tracks) THEN {<<>>}
    ELSE {<<[name |-> tracks[t].name, df |-> df]>> \o rest :
             df \in interval_features(tracks[t], args.refid, args.start, args.end,
                                      args.feature_types, args.max_features_per_type),
             rest \in AnnotationDicts(tracks, t + 1, args)}

\* JGV(fp, ref_list): the reference sequences are those of ref_list, or all
\* those of the file
References ==
    {[ref_list |-> <<>>, refid_list |-> <<chr1, chr2>>],
     [ref_list |-> <<chr1>>, refid_list |-> <<chr1>>]}

\* a session with a reference and two annotation tracks, no Level yet
InitPlot ==
    /\ max_depth = DefaultMaxDepth
    /\ offset = DefaultOffset
    /\ filter_pos = FALSE
    /\ filter_neg = FALSE
    /\ filter_unstrand = FALSE
    /\ level_dict = EmptyDict
    /\ count = EmptyCount
    /\ ret = None
    /\ hist = <<>>
    /\ d = NoData
    /\ cov_call = None
    /\ cov_df = None
    /\ cov_wins = <<>>
    /\ NoFile
    /\ NoInput
    /\ reference \in References
    /\ \E a \in GffTracks : annotations = <<a, BedTrack>>
    /\ alignments = <<>>
    /\ adds = <<>>
    /\ plot_call = None
    /\ annotation_dict = <<>>
    /\ plot_pc = None
    /\ exc = ""

\* interval_plot up to the loop over annotation_dict
IntervalPlot ==
    /\ plot_call = None
    /\ \E refid \in PlotRefids, win \in PlotWindows,
          feature_types \in PlotFeatureTypes, max \in PlotMaxFeatures :
          LET args == [refid |-> refid, start |-> win[1], end |-> win[2],
                       feature_types |-> feature_types,
                       max_features_per_type |-> max,
                       annotation_offset |-> (win[2] - win[1]) \div OffsetDivisor]
          IN  /\ plot_call' = args
              /\ IF ~InList(refid, reference.refid_list)
                       \/ (alignments = <<>> /\ annotations = <<>>)
                 THEN annotation_dict' = <<>> /\ plot_pc' = None /\ exc' = ""
                 ELSE IF win[1] >= win[2]
                 THEN annotation_dict' = <<>> /\ plot_pc' = None /\ exc' = "ValueError"
                 ELSE \E dict \in AnnotationDicts(annotations, 1, args) :
                         /\ annotation_dict' = dict
                         /\ plot_pc' = Goto(dict, 1)
                         /\ exc' = ""
    /\ UNCHANGED <<reference, annotations, alignments, adds>>
    /\ UNCHANGED <<levelVars, covVars, fileVars, inputVars>>

\* the "No feature case" of a track
EmptyTrack ==
    /\ plot_pc # None
    /\ ~plot_pc.level
    /\ annotation_dict[plot_pc.track].df = <<>>
    /\ plot_pc' = Goto(annotation_dict, plot_pc.track + 1)
    /\ UNCHANGED <<reference, annotations, alignments, adds, plot_call, annotation_dict>>
    /\ UNCHANGED <<levelVars, covVars, fileVars, inputVars, exc>>

\* the next pass of the loop over track_df.groupby("type"), up to
\* level = Level(offset=annotation_offset)
NewGroup ==
    /\ plot_pc # None
    /\ ~plot_pc.level
    /\ plot_pc.group < Len(GroupTypes(annotation_dict[plot_pc.track].df))
    /\ plot_pc' = [plot_pc EXCEPT !.group = @ + 1, !.level = TRUE, !.row = 0]
    /\ max_depth' = DefaultMaxDepth
    /\ offset' = plot_call.annotation_offset
    /\ filter_pos' = FALSE
    /\ filter_neg' = FALSE
    /\ filter_unstrand' = FALSE
    /\ level_dict' = EmptyDict
    /\ count' = EmptyCount
    /\ ret' = None
    /\ hist' = <<>>
    /\ UNCHANGED <<reference, annotations, alignments, adds, plot_call, annotation_dict>>
    /\ UNCHANGED <<covVars, fileVars, inputVars, exc>>

\* one pass of the loop over feature_df.iterrows()
PlaceFeature ==
    /\ plot_pc # None
    /\ plot_pc.level
    /\ LET feature_df == FeatureDf(annotation_dict[plot_pc.track].df, plot_pc.group)
       IN  /\ plot_pc.row < Len(feature_df)
           /\ LET feature == feature_df[plot_pc.row + 1]
                  fl == Call(Self, feature.ID, feature.start, feature.end, feature.strand)
              IN  /\ level_dict' = fl.level_dict
                  /\ count' = fl.count
                  /\ ret' = fl.ret
                  /\ hist' = Append(hist, [ID |-> feature.ID, start |-> feature.start,
                                           end |-> feature.end, strand |-> feature.strand,
                                           ret |-> fl.ret])
    /\ plot_pc' = [plot_pc EXCEPT !.row = @ + 1]
    /\ UNCHANGED <<max_depth, offset, filter_pos, filter_neg, filter_unstrand>>
    /\ UNCHANGED <<reference, annotations, alignments, adds, plot_call, annotation_dict>>
    /\ UNCHANGED <<covVars, fileVars, inputVars, exc>>

\* ax.set_ylim(level.min_level-0.5, level.max_level+0.5) and the end of the
\* pass: min() of an empty level_dict raises ValueError
SetYlim ==
    /\ plot_pc # None
    /\ plot_pc.level
    /\ LET track_df == annotation_dict[plot_pc.track].df
       IN  /\ plot_pc.row = Len(FeatureDf(track_df, plot_pc.group))
           /\ IF DOMAIN level_dict = {}
              THEN plot_pc' = None /\ exc' = "ValueError"
              ELSE /\ exc' = ""
                   /\ plot_pc' = IF plot_pc.group < Len(GroupTypes(track_df))
                                 THEN [plot_pc EXCEPT !.level = FALSE]
                                 ELSE Goto(annotation_dict, plot_pc.track + 1)
    /\ UNCHANGED <<reference, annotations, alignments, adds, plot_call, annotation_dict>>
    /\ UNCHANGED <<levelVars, covVars, fileVars, inputVars>>

NextPlot == IntervalPlot \/ EmptyTrack \/ NewGroup \/ PlaceFeature \/ SetYlim

SpecPlot == InitPlot /\ [][NextPlot]_vars

(***************************************************************************)
(* JGV.add_annotation and JGV.add_alignment.  An annotation file is its    *)
(* extension ("" when the name has none) and its lines, split in columns,  *)
(* start and end still text.                                               *)
(***************************************************************************)
MaxAdds == 3

\* a line of an annotation file
FileRow(refid, start, end) ==
    [refid |-> refid, start |-> start, end |-> end, strand |-> "+", ID |-> "f",
     type |-> "gene"]

AnnotationFiles ==
    {[ext |-> "gff3", rows |-> <<FileRow(chr1, <<"5">>, <<"1", "5">>)>>],
     [ext |-> "bed", rows |-> <<FileRow(chr1, <<"0">>, <<"1", "0">>)>>],
     [ext |-> "gtf", rows |-> <<FileRow(chr1, <<"5">>, <<"8">>),
                                FileRow(chr2, <<"x">>, <<"8">>)>>],
     [ext |-> "txt", rows |-> <<>>],
     [ext |-> "", rows |-> <<>>]}

AlignmentFiles ==
    {[ext |-> "bam",
      reads |-> <<[reference_name |-> chr1, is_reverse |-> FALSE,
                   positions |-> <<9, 10>>]>>],
     [ext |-> "bed",
      text |-> BedText(<<[refid |-> chr1, position |-> 9, coverage |-> 2,
                          strand |-> "+"]>>)],
     [ext |-> "bed", text |-> chr1 \o <<TAB, "x", NL>>],
     [ext |-> "txt"]}

\* "df[['start', 'end']].astype(int)" and the columns kept, on the rows of
\* the reference list
AnnotationParser(ext, rows, ref_list) ==
    LET df == IF ref_list = <<>> THEN rows
              ELSE SelectSeq(rows, LAMBDA r : InList(r.refid, ref_list))
    IN  IF \E k \in 1..Len(df) : ~IsInt(df[k].start) \/ ~IsInt(df[k].end)
        THEN [exc |-> "ValueError", obj |-> None]
        ELSE [exc |-> "",
              obj |-> [name |-> ext, ext |-> ext,
                       df |-> [k \in 1..Len(df) |->
                                 [df[k] EXCEPT !.start = ParseInt(@),
                                               !.end = ParseInt(@),
                                               !.type = IF ext = "bed" THEN "unknown"
                                                        ELSE @]]]]

\* Annotation(fp, ref_list=ref_list)
Annotation(file, ref_list) ==
    IF file.ext = "" THEN [exc |-> "IndexError", obj |-> None]
    ELSE IF file.ext \in {"gtf", "gff3", "bed"}
    THEN AnnotationParser(file.ext, file.rows, ref_list)
    ELSE [exc |-> "ValueError", obj |-> None]

\* Alignment(fp, min_coverage=min_coverage, ref_list=ref_list): ref_list goes
\* to **kwargs, refid_list keeps its default
Alignment(file, min_coverage) ==
    LET st == init(file, min_coverage, <<>>)
    IN  [exc |-> st.exc,
         obj |-> IF st.exc # "" THEN None
                 ELSE [name |-> file.ext, d |-> st.d, nbases |-> st.nbases]]

\* mutation of AddTrack: the track is appended whatever the constructor did
AddTrackAnyway(tracks, r) == Append(tracks, r.obj)

\* "a = ...(fp, ...)" then "self.<tracks>.append(a)": the append is not
\* reached when the constructor raised
AddTrack(tracks, r) == IF r.exc # "" THEN tracks ELSE Append(tracks, r.obj)

\* a new session: no track
InitSession ==
    /\ max_depth = DefaultMaxDepth
    /\ offset = DefaultOffset
    /\ filter_pos = FALSE
    /\ filter_neg = FALSE
    /\ filter_unstrand = FALSE
    /\ level_dict = EmptyDict
    /\ count = EmptyCount
    /\ ret = None
    /\ hist = <<>>
    /\ d = NoData
    /\ cov_call = None
    /\ cov_df = None
    /\ cov_wins = <<>>
    /\ NoFile
    /\ NoInput
    /\ reference \in References
    /\ annotations = <<>>
    /\ alignments = <<>>
    /\ adds = <<>>
    /\ plot_call = None
    /\ annotation_dict = <<>>
    /\ plot_pc = None
    /\ exc = ""

add_annotation ==
    /\ Len(adds) < MaxAdds
    /\ \E fp \in AnnotationFiles :
          LET a == Annotation(fp, reference.ref_list)
          IN  /\ annotations' = AddTrack(annotations, a)
              /\ exc' = a.exc
              /\ adds' = Append(adds, [method |-> "add_annotation", fp |-> fp,
                                       min_coverage |-> 0, exc |-> a.exc])
    /\ UNCHANGED <<reference, alignments, plot_call, annotation_dict, plot_pc>>
    /\ UNCHANGED <<levelVars, covVars, fileVars, inputVars>>

add_alignment ==
    /\ Len(adds) < MaxAdds
    /\ \E fp \in AlignmentFiles, min_coverage \in MinCoverages :
          LET a == Alignment(fp, min_coverage)
          IN  /\ alignments' = AddTrack(alignments, a)
              /\ exc' = a.exc
              /\ adds' = Append(adds, [method |-> "add_alignment", fp |-> fp,
                                       min_coverage |-> min_coverage, exc |-> a.exc])
    /\ UNCHANGED <<reference, annotations, plot_call, annotation_dict, plot_pc>>
    /\ UNCHANGED <<levelVars, covVars, fileVars, inputVars>>

NextSession == add_annotation \/ add_alignment

SpecSession == InitSession /\ [][NextSession]_vars

(***************************************************************************)
(* What the history says, independently of level_dict.                     *)
(***************************************************************************)
Placed(h, n) == h[n].ret # None
\* the calls among the first n of h that returned a placement on level L
PlacedIdx(h, n, L) == {i \in 1..n : Placed(h, i) /\ h[i].ret.level = L}
\* the calls of h placed on level L, in call order
PlacedOn(h, L) == SelectSeq(h, LAMBDA c : c.ret # None /\ c.ret.level = L)
\* last_end_at[L] before call n: the end of the last feature put on L
LastEndAt(h, n, L) == h[SetMax(PlacedIdx(h, n - 1, L))].end
\* the levels call n may be put on by the free-slot rule, among Ls
FreeLevels(h, n, Ls) ==
    {L \in Ls : PlacedIdx(h, n - 1, L) = {}
                \/ (LastEndAt(h, n, L) + offset) < h[n].start}
Sorted(h) == \A i, j \in 1..Len(h) : i < j => h[i].start <= h[j].start
AllStrand(h, strand) == \A i \in 1..Len(h) : h[i].strand = strand
IsCall(c, start, end, strand) == c.start = start /\ c.end = end /\ c.strand = strand

(***************************************************************************)
(* C1. A '+' feature, positive features not filtered, is put on the first   *)
(* level L of 1..max_depth that was never used or has                      *)
(* last_end_at[L] + offset < start (strictly); last_end_at[L] becomes its  *)
(* end and the placement carries level L and the right-pointing arrow.     *)
(* With offset 10: A=(0,10) level 1, B=(5,15) level 2, C=(25,30) level 1.  *)
(***************************************************************************)
C1_PositivePlacement ==
    /\ \A n \in 1..Len(hist) :
          (hist[n].strand = "+" /\ ~filter_pos) =>
             LET free == FreeLevels(hist, n, 1..max_depth)
             IN  free # {} =>
                   /\ hist[n].ret = enhanced_feature(hist[n].ID, hist[n].start,
                                        hist[n].end, pos_arrowstyle, SetMin(free))
                   /\ n = Len(hist) =>
                         /\ ret = hist[n].ret
                         /\ SetMin(free) \in DOMAIN level_dict
                         /\ level_dict[SetMin(free)] = hist[n].end
    /\ (/\ offset = 10 /\ ~filter_pos /\ max_depth >= 2 /\ Len(hist) >= 3
        /\ IsCall(hist[1], 0, 10, "+") /\ IsCall(hist[2], 5, 15, "+")
        /\ IsCall(hist[3], 25, 30, "+"))
       => (hist[1].ret.level = 1 /\ hist[2].ret.level = 2 /\ hist[3].ret.level = 1)

\* the example of C1 has been run
C1_Witness ==
    /\ offset = 10 /\ ~filter_pos /\ max_depth = 2 /\ Len(hist) = 3
    /\ IsCall(hist[1], 0, 10, "+") /\ IsCall(hist[2], 5, 15, "+")
    /\ IsCall(hist[3], 25, 30, "+")
    /\ ret # None /\ ret.level = 1 /\ level_dict[1] = 30 /\ level_dict[2] = 15

(***************************************************************************)
(* C2. Non-overlap: on every level L, two features placed one after the    *)
(* other on L satisfy feature2.start >= feature1.end + offset.             *)
(* As claimed (level 0 included) and as amended (L # 0).                   *)
(***************************************************************************)
NonOverlapOn(L) ==
    LET s == PlacedOn(hist, L)
    IN  \A i \in 1..(Len(s) - 1) : s[i + 1].start >= s[i].end + offset

\* the claim as stated: every level, level 0 included
C2_NonOverlapEveryLevel == \A L \in (-max_depth)..max_depth : NonOverlapOn(L)

\* the claim as amended: every level but level 0
C2_NonOverlapStranded ==
    \A L \in (-max_depth)..max_depth : L # 0 => NonOverlapOn(L)

\* two features share a stranded level
C2_Witness ==
    \E L \in (-max_depth)..max_depth : L # 0 /\ Len(PlacedOn(hist, L)) >= 2

(***************************************************************************)
(* C3. Saturation: max_depth+1 '+' features, all mutually overlapping      *)
(* within offset, fed in ascending start order: the first max_depth calls  *)
(* are placed on levels 1..max_depth, the last returns nothing, and the    *)
(* positive tally equals max_depth.                                        *)
(***************************************************************************)
MutuallyOverlapping(h) ==
    \A i, j \in 1..Len(h) : i < j => ~((h[i].end + offset) < h[j].start)

SaturatingRun ==
    /\ Len(hist) = max_depth + 1
    /\ ~filter_pos
    /\ AllStrand(hist, "+")
    /\ Sorted(hist)
    /\ MutuallyOverlapping(hist)

C3_Saturation ==
    SaturatingRun =>
       /\ \A i \in 1..max_depth : Placed(hist, i) /\ hist[i].ret.level = i
       /\ hist[max_depth + 1].ret = None
       /\ ret = None
       /\ count.positive_features = max_depth

(***************************************************************************)
(* C4. An unstranded feature, unstranded features not filtered, is placed  *)
(* at level 0 with the flat arrow whatever level_dict[0] was, and          *)
(* level_dict[0] becomes its end; after unstranded placements only,        *)
(* min_level = max_level = 0.                                              *)
(***************************************************************************)
C4_Unstranded ==
    /\ \A n \in 1..Len(hist) :
          (hist[n].strand = "." /\ ~filter_unstrand) =>
             /\ hist[n].ret = enhanced_feature(hist[n].ID, hist[n].start,
                                  hist[n].end, unstrand_arrowstyle, 0)
             /\ n = Len(hist) =>
                   /\ ret = hist[n].ret
                   /\ 0 \in DOMAIN level_dict
                   /\ level_dict[0] = hist[n].end
    /\ (hist # <<>> /\ AllStrand(hist, ".") /\ ~filter_unstrand)
       => (min_level = 0 /\ max_level = 0)

\* a second unstranded feature has overwritten a larger level-0 record
C4_Witness ==
    /\ Len(hist) = 2 /\ ~filter_unstrand
    /\ IsCall(hist[1], 0, 10, ".") /\ IsCall(hist[2], 5, 8, ".")
    /\ ret # None /\ ret.level = 0 /\ level_dict[0] = 8
    /\ min_level = 0 /\ max_level = 0

(***************************************************************************)
(* C5. After calls in ascending start order, the end stored for a level is *)
(* the largest end of the features assigned to that level.                 *)
(* As claimed (every level present) and as amended (every level but 0).    *)
(***************************************************************************)
MaxEndOn(L) == SetMax({hist[i].end : i \in PlacedIdx(hist, Len(hist), L)})

\* the claim as stated: every level present, level 0 included
C5_StoredEndIsMaxEveryLevel ==
    Sorted(hist) => \A L \in DOMAIN level_dict : level_dict[L] = MaxEndOn(L)

\* the claim as amended: every level present but level 0
C5_StoredEndIsMaxStranded ==
    Sorted(hist) =>
       \A L \in DOMAIN level_dict : L # 0 => level_dict[L] = MaxEndOn(L)

\* a stranded level holds two features of a sorted run
C5_Witness ==
    /\ Sorted(hist)
    /\ \E L \in DOMAIN level_dict :
          L # 0 /\ Cardinality(PlacedIdx(hist, Len(hist), L)) >= 2

(***************************************************************************)
(* What a call of interval_coverage was asked and what the stored coverage *)
(* says, independently of the reducers.                                    *)
(***************************************************************************)
Called == cov_call # None
KnownRef == cov_call.refid \in DOMAIN d
ValidFun == cov_call.fun \in {"max", "sum", "mean"}
BothStrands == {"+", "-"}
Min2(a, b) == IF a < b THEN a ELSE b
\* min(bins, end - start)
NBins == Min2(cov_call.bins, cov_call.end - cov_call.start)
\* the recorded positions of a strand of the asked reference inside window w
InWindow(strand, w) ==
    {p \in DOMAIN d[cov_call.refid][strand] : w[1] <= p /\ p < w[2]}
\* the sum of the depths recorded in ser at the positions P
RECURSIVE DepthSum(_, _)
DepthSum(ser, P) ==
    IF P = {} THEN 0
    ELSE LET p == CHOOSE q \in P : TRUE
         IN  ser[p] + DepthSum(ser, P \ {p})
HasRow(idx) == \E r \in 1..Len(cov_df) : cov_df[r].idx = idx
RowOf(idx) == CHOOSE r \in 1..Len(cov_df) : cov_df[r].idx = idx
\* one row per pass of the loop, labelled by the start of its window
RowsAreWindows ==
    /\ Len(cov_df) = Len(cov_wins)
    /\ \A k \in 1..Len(cov_df) : cov_df[k].idx = cov_wins[k][1]
ZeroRow == [st \in BothStrands |-> IntV(0)]

(***************************************************************************)
(* C6. For start < end and bins >= 1 interval_coverage returns exactly     *)
(* min(bins, end - start) entries, and the bin starts are strictly         *)
(* increasing.                                                             *)
(***************************************************************************)
C6_EntryCount ==
    (Called /\ (ValidFun \/ ~KnownRef)) =>
       /\ Len(cov_df) = NBins
       /\ \A r \in 1..(Len(cov_df) - 1) : cov_df[r].idx < cov_df[r + 1].idx

(***************************************************************************)
(* C7. With step = (end - start) / bins, bin i (0 <= i < bins) starts at   *)
(* floor(start + i * step) and takes, per strand, exactly the recorded     *)
(* positions of its window; a bin with no recorded position in its window  *)
(* has value 0 for that strand, whatever the reducer.  The start of a bin  *)
(* is accepted under both readings of the formula: in exact arithmetic,    *)
(* and with the product and the sum each rounded to a float.               *)
(***************************************************************************)
BinStartExact(i) ==
    cov_call.start + ((i * (cov_call.end - cov_call.start)) \div NBins)

BinStartFloat(i) ==
    FlTrunc(FlAdd(FlFromInt(cov_call.start),
                  FlMul(FlFromInt(i), StepOf(cov_call.start, cov_call.end, NBins))))

\* a window without recorded position gives 0, whatever the reducer
EmptyBinsAreZero ==
    \A k \in 1..Len(cov_wins) : \A st \in BothStrands :
       InWindow(st, cov_wins[k]) = {} =>
          /\ HasRow(cov_wins[k][1])
          /\ cov_df[RowOf(cov_wins[k][1])].val[st] = IntV(0)

C7_BinWindows ==
    (Called /\ KnownRef) =>
       /\ EmptyBinsAreZero
       /\ ValidFun =>
             /\ Len(cov_df) = NBins
             /\ \A r \in 1..Len(cov_df) :
                   /\ cov_df[r].idx \in {BinStartExact(r - 1), BinStartFloat(r - 1)}
                   /\ \A st \in BothStrands :
                         (cov_df[r].val[st] = IntV(0))
                            <=> (InWindow(st, cov_wins[r]) = {})

(***************************************************************************)
(* C8. For a bin whose window holds at least one recorded position, "max"  *)
(* gives the largest recorded depth of the window and "sum" the sum of the *)
(* recorded depths of the window, each strand on its own.                  *)
(***************************************************************************)
C8_MaxAndSum ==
    (Called /\ KnownRef /\ cov_call.fun \in {"max", "sum"}) =>
       /\ RowsAreWindows
       /\ \A k \in 1..Len(cov_wins) : \A st \in BothStrands :
             LET P == InWindow(st, cov_wins[k])
                 ser == d[cov_call.refid][st]
                 v == cov_df[k].val[st]
             IN  P # {} =>
                    IF cov_call.fun = "max"
                    THEN \E p \in P : v = IntV(ser[p]) /\ \A q \in P : ser[q] <= ser[p]
                    ELSE v = IntV(DepthSum(ser, P))

\* "sum" over a window holding depths 5 and 9 on '+' and depth 6 on '-'
C8_Witness ==
    /\ Called /\ KnownRef /\ cov_call.fun = "sum" /\ RowsAreWindows
    /\ \E k \in 1..Len(cov_wins) :
          /\ InWindow("+", cov_wins[k]) = {6, 7}
          /\ InWindow("-", cov_wins[k]) = {7}
          /\ cov_df[k].val = ("+" :> IntV(14) @@ "-" :> IntV(6))

(***************************************************************************)
(* C9. For a bin whose window holds at least one recorded position, "mean" *)
(* gives the sum of the recorded depths divided by the float               *)
(* step = (end - start) / bins: the value is a float nearest to that       *)
(* quotient.  It is neither the sum over the number of recorded positions  *)
(* nor the sum over winend - winstart.                                     *)
(***************************************************************************)
\* float v is within half a unit in its last place of S / s, for an integer
\* S > 0 and a float s > 0:  2 * |S * 2^k - m_v * m_s| <= m_s, k = -(e_v + e_s)
NearestQuotient(v, S, s) ==
    LET k == -(v.e + s.e)
        lhs == BigShl(BigFromInt(S), k)
        prod == BigMul(v.m, s.m)
        diff == IF BigCmp(lhs, prod) >= 0 THEN BigSub(lhs, prod) ELSE BigSub(prod, lhs)
    IN  /\ BigBitLen(v.m) = MantBits
        /\ k >= 0
        /\ BigCmp(BigShl(diff, 1), s.m) <= 0

C9_MeanDividesByStep ==
    (Called /\ KnownRef /\ cov_call.fun = "mean") =>
       /\ RowsAreWindows
       /\ \A k \in 1..Len(cov_wins) : \A st \in BothStrands :
             LET P == InWindow(st, cov_wins[k])
                 v == cov_df[k].val[st]
             IN  P # {} =>
                    /\ DOMAIN v = {"m", "e"}
                    /\ NearestQuotient(v, DepthSum(d[cov_call.refid][st], P),
                          StepOf(cov_call.start, cov_call.end, NBins))

\* chr1:0-8 in 3 bins: the window [5, 8) holds depths 5 and 9 and its mean is
\* 14 / (8/3) = 5.25, where 14 / 2 = 7 and 14 / 3 = 4.66...
C9_Witness ==
    /\ Called /\ KnownRef /\ cov_call.fun = "mean" /\ RowsAreWindows
    /\ cov_call.start = 0 /\ cov_call.end = 8 /\ cov_call.bins = 3
    /\ \E k \in 1..Len(cov_wins) :
          /\ InWindow("+", cov_wins[k]) = {6, 7}
          /\ cov_wins[k] = <<5, 8>>
          /\ DOMAIN cov_df[k].val["+"] = {"m", "e"}
          /\ FlTrunc(cov_df[k].val["+"]) = 5
          /\ ~FlIsInt(cov_df[k].val["+"])

(***************************************************************************)
(* C10. For a reference id that is not in the stored data, or an interval  *)
(* [start, end) holding no stored position, interval_coverage returns the  *)
(* rows it returns for a known reference (as many, with the same bin       *)
(* starts), with value 0 for both strands in every row.                    *)
(***************************************************************************)
OutsideStored ==
    /\ KnownRef
    /\ \A st \in BothStrands : \A p \in DOMAIN d[cov_call.refid][st] :
          p < cov_call.start \/ p >= cov_call.end

\* the rows returned for the known reference "chr1" on the same interval
KnownShape ==
    interval_coverage(d, "chr1", cov_call.start, cov_call.end, cov_call.bins, "max").df

C10_ZeroShape ==
    (Called /\ (~KnownRef \/ OutsideStored)) =>
       LET known == KnownShape
       IN  /\ Len(cov_df) = Len(known)
           /\ \A r \in 1..Len(cov_df) :
                 /\ cov_df[r].idx = known[r].idx
                 /\ cov_df[r].val = ZeroRow

(***************************************************************************)
(* C11. Calling the coverage binner with start >= end (start = end as well *)
(* as start > end) fails with an error and returns no bins.                *)
(***************************************************************************)
C11_InvalidInterval ==
    (Called /\ cov_call.start >= cov_call.end) => (exc # "" /\ cov_df = None)

(***************************************************************************)
(* C12. Calling the coverage binner with a reducer name other than "max",  *)
(* "sum" or "mean" fails with an error, for every input, also when a bin   *)
(* window holds recorded positions.                                        *)
(***************************************************************************)
C12_InvalidReducer == (Called /\ ~ValidFun) => exc # ""

(***************************************************************************)
(* C13. Reducer "sum" composes: when the bins of [start, end) have an      *)
(* integer width, splitting the interval at a bin boundary m and binning   *)
(* [start, m) and [m, end) with "sum", each in its share of the bins,      *)
(* gives the rows of the joined interval, the rows of the first part       *)
(* followed by the rows of the second, and so the same total.              *)
(***************************************************************************)
\* the bins of the call made have an integer width
IntegerStep ==
    (cov_call.end - cov_call.start) % NBins = 0

BinWidth == (cov_call.end - cov_call.start) \div NBins

\* the rows interval_coverage returns for [from, to) in n bins with "sum"
SumRows(from, to, n) == interval_coverage(d, cov_call.refid, from, to, n, "sum").df

\* the total of the values of the rows, both strands
RECURSIVE RowsTotal(_)
RowsTotal(rows) ==
    IF rows = <<>> THEN 0
    ELSE rows[1].val["+"].int + rows[1].val["-"].int + RowsTotal(Tail(rows))

\* the two parts of a split after k bins give the rows of the call made
SplitAgrees(k) ==
    LET m == cov_call.start + k * BinWidth
        parts == SumRows(cov_call.start, m, k) \o SumRows(m, cov_call.end, NBins - k)
    IN  /\ parts = cov_df
        /\ RowsTotal(parts) = RowsTotal(cov_df)

C13_SumComposes ==
    (Called /\ cov_call.fun = "sum" /\ IntegerStep) =>
       \A k \in 1..(NBins - 1) : SplitAgrees(k)

\* chr1:0-8 in 4 bins of width 2, split at 6: depths 5 and 9 fall in the second
\* part, whose only bin holds their sum as does the last bin of the whole
C13_Witness ==
    /\ Called /\ KnownRef /\ cov_call.fun = "sum"
    /\ cov_call.start = 0 /\ cov_call.end = 8 /\ cov_call.bins = 4
    /\ Len(cov_df) = 4
    /\ cov_df[4] = [idx |-> 6, val |-> ("+" :> IntV(14) @@ "-" :> IntV(6))]
    /\ SumRows(6, 8, 1) = <<cov_df[4]>>
    /\ SplitAgrees(3)

(***************************************************************************)
(* C14. The '-' rule mirrors the '+' rule: for a start-sorted sequence of  *)
(* features, the levels assigned when all have strand '-' are the negated  *)
(* levels assigned when all have strand '+' (the same features dropped),   *)
(* with the left-pointing arrow.                                           *)
(***************************************************************************)
\* what the calls of h return when made in turn on the Level o, all with strand s
RECURSIVE Replay(_, _, _)
Replay(o, h, s) ==
    IF h = <<>> THEN <<>>
    ELSE LET r == Call(o, h[1].ID, h[1].start, h[1].end, s)
         IN  <<r.ret>> \o Replay([o EXCEPT !.level_dict = r.level_dict,
                                           !.count = r.count],
                                 Tail(h), s)

\* a new Level with the depth and offset of this one and no filter
Unfiltered == LevelObj(max_depth, offset, FALSE, FALSE, FALSE, EmptyDict, EmptyCount)

C14_NegMirrorsPos ==
    (Sorted(hist) /\ AllStrand(hist, "-") /\ ~filter_neg) =>
       LET pos == Replay(Unfiltered, hist, "+")
       IN  \A n \in 1..Len(hist) :
              IF pos[n] = None
              THEN hist[n].ret = None
              ELSE hist[n].ret = enhanced_feature(hist[n].ID, hist[n].start, hist[n].end,
                                                  neg_arrowstyle, -(pos[n].level))

\* three sorted '-' features: one on level -2 and one dropped
C14_Witness ==
    /\ Len(hist) = 3 /\ Sorted(hist) /\ AllStrand(hist, "-") /\ ~filter_neg
    /\ \E n \in 1..3 : hist[n].ret # None /\ hist[n].ret.level = -2
    /\ \E n \in 1..3 : hist[n].ret = None

(***************************************************************************)
(* C15. __call__ returns nothing whenever the filter of the feature's      *)
(* strand is on (filter_pos for '+', filter_neg for '-', filter_unstrand   *)
(* for '.'), whatever the level map holds, and returns nothing for a '+'   *)
(* or '-' feature when none of the max_depth levels of its side is free.   *)
(***************************************************************************)
Filtered(strand) ==
    \/ strand = "+" /\ filter_pos
    \/ strand = "-" /\ filter_neg
    \/ strand = "." /\ filter_unstrand

\* the levels of the side of a stranded feature
SideLevels(strand) == IF strand = "+" THEN 1..max_depth ELSE (-max_depth)..(-1)

C15_NothingReturned ==
    \A n \in 1..Len(hist) :
       /\ Filtered(hist[n].strand) => hist[n].ret = None
       /\ (hist[n].strand \in {"+", "-"}
           /\ FreeLevels(hist, n, SideLevels(hist[n].strand)) = {})
          => hist[n].ret = None
       /\ (n = Len(hist) /\ hist[n].ret = None) => ret = None

\* with one level and filter_neg on: a '+' placed, a '-' filtered although the
\* level map is not empty, then a '+' finding no free level
C15_Witness ==
    /\ max_depth = 1 /\ filter_neg /\ Len(hist) = 3
    /\ hist[1].strand = "+" /\ hist[1].ret # None
    /\ hist[2].strand = "-" /\ hist[2].ret = None
    /\ hist[3].strand = "+" /\ hist[3].ret = None
    /\ FreeLevels(hist, 3, 1..max_depth) = {}
    /\ DOMAIN level_dict = {1}
    /\ ret = None

(***************************************************************************)
(* C16. A __call__ with a strand symbol other than '+', '-' and '.' fails   *)
(* with an error: it neither returns a placement nor silently returns      *)
(* nothing.                                                                *)
(***************************************************************************)
ValidStrand(strand) == strand \in {"+", "-", "."}

C16_InvalidStrandFails ==
    (hist # <<>> /\ ~ValidStrand(hist[Len(hist)].strand)) => exc # ""

(***************************************************************************)
(* C17. After any sequence of calls, count['all_features'] is the number   *)
(* of calls made (filtered, dropped and invalid-strand calls included)     *)
(* and the positive, negative and unstranded tallies are each the number   *)
(* of placements returned for that strand.                                 *)
(***************************************************************************)
\* the number of calls of h with that strand that returned a placement
NPlaced(h, strand) ==
    Cardinality({i \in 1..Len(h) : h[i].strand = strand /\ Placed(h, i)})

C17_Tallies ==
    /\ count["all_features"] = Len(hist)
    /\ count["positive_features"] = NPlaced(hist, "+")
    /\ count["negative_features"] = NPlaced(hist, "-")
    /\ count["unstranded_features"] = NPlaced(hist, ".")

(***************************************************************************)
(* C18. After any sequence of calls of which at least one returned a       *)
(* placement, min_level and max_level are the least and the greatest level *)
(* among the placements returned so far, and n_level is the number of      *)
(* distinct levels among them.                                             *)
(***************************************************************************)
\* the levels of the placements returned by the calls of h
PlacedLevels(h) == {h[i].ret.level : i \in {j \in 1..Len(h) : Placed(h, j)}}

Written == outfile # None
\* the file was read back with the min_coverage of the Alignment that wrote it
\* and no selection of references
ReadBack == bed # None /\ bed.min_coverage = init_min_coverage /\ bed.refid_list = <<>>

SameMaps(refid) ==
    /\ refid \in DOMAIN bed.d
    /\ \A strand \in BothStrands : bed.d[refid][strand] = d[refid][strand]

C19_RoundTrip == ReadBack => \A refid \in DOMAIN d : SameMaps(refid)

\* the references of which a position is retained on some strand
HasCoverage(refid) == d[refid]["+"] # <<>> \/ d[refid]["-"] # <<>>

\* what the round trip does give: the references read back are those with a
\* retained position, in the same order, each with identical maps
RoundTripOfCovered ==
    ReadBack =>
       /\ bed.d_keys = SelectSeq(d_keys, HasCoverage)
       /\ DOMAIN bed.d = {refid \in DOMAIN d : HasCoverage(refid)}
       /\ \A refid \in DOMAIN bed.d : SameMaps(refid)

(***************************************************************************)
(* C20. The file written for self.d holds one header line                  *)
(* "#<refid>\t<length>" per reference, then exactly one data line          *)
(* "<refid>\t<pos>\t<pos>\tpos<running_index>\t<depth>\t<strand>" per       *)
(* retained position, the '+' lines of a reference before its '-' lines    *)
(* and positions ascending within a strand, running_index counting 1, 2,   *)
(* 3, ... over the whole file; the text does not depend on buf_size.       *)
(***************************************************************************)
\* line is "#<refid>\t<length>\n" for some integer length
IsHeaderLine(line, refid) ==
    /\ Len(line) > Len(refid) + 3
    /\ SubSeq(line, 1, Len(refid) + 2) = <<"#">> \o refid \o <<TAB>>
    /\ IsInt(SubSeq(line, Len(refid) + 3, Len(line) - 1))
    /\ line[Len(line)] = NL

\* the retained positions in the order the file is to list them
ListedItems == WriterItems(d, d_keys)
ListedInOrder(items) ==
    \A j, k \in 1..Len(items) :
       (j < k /\ items[j].refid = items[k].refid) =>
          /\ items[j].strand = "+" \/ items[k].strand = "-"
          /\ items[j].strand = items[k].strand => items[j].position < items[k].position

\* lines, from line n + 1 on, are the data lines of items, numbered from 1
DataLinesFrom(lines, n, items) ==
    /\ Len(lines) = n + Len(items)
    /\ \A k \in 1..Len(items) :
          lines[n + k] = CoverageLine(items[k].refid, items[k].position, k,
                                      items[k].coverage, items[k].strand)
    /\ ListedInOrder(items)

C20_FileFormat ==
    Written =>
       /\ \A k \in 1..Len(d_keys) :
             /\ k <= Len(Lines(outfile.text))
             /\ IsHeaderLine(Lines(outfile.text)[k], d_keys[k])
       /\ DataLinesFrom(Lines(outfile.text), Len(d_keys), ListedItems)

\* what the file does hold: the data lines alone, whatever buf_size is
DataLinesOnly == Written => DataLinesFrom(Lines(outfile.text), 0, ListedItems)

(***************************************************************************)
(* C24. Greedy optimality.  For '+' features (not filtered) fed in         *)
(* ascending order of start, with start < end and offset >= 0: after any   *)
(* prefix of the calls the number of positive levels in use is             *)
(* min(max_depth, k), k being the largest number of '+' features of the    *)
(* prefix whose spans [start, end + offset] share a coordinate; and a '+'  *)
(* feature is dropped only when max_depth earlier '+' features conflict    *)
(* with it.                                                                *)
(***************************************************************************)
\* the '+' calls among the first n of h
PosCalls(h, n) == {i \in 1..n : h[i].strand = "+"}
PosSorted(h) ==
    \A i, j \in PosCalls(h, Len(h)) : i < j => h[i].start <= h[j].start
\* the '+' calls among the first n whose span extended by the offset holds c
Covering(h, n, c) ==
    {i \in PosCalls(h, n) : h[i].start <= c /\ c <= h[i].end + offset}
\* the coordinates of the spans of the first n calls
Coordinates(h, n) ==
    UNION {h[i].start..(h[i].end + offset) : i \in 1..n}
\* k: the largest number of '+' spans of the first n calls that share a coordinate
MaxShared(h, n) ==
    SetMax({0} \cup {Cardinality(Covering(h, n, c)) : c \in Coordinates(h, n)})
\* the positive levels given to the first n calls
PosLevelsAfter(h, n) ==
    {h[i].ret.level : i \in {j \in PosCalls(h, n) : Placed(h, j)}}
\* the earlier '+' calls whose extended span reaches the start of call n
ConflictsWith(h, n) ==
    {i \in PosCalls(h, n - 1) : h[i].start <= h[n].start /\ h[n].start <= h[i].end + offset}

C24_GreedyOptimal ==
    (PosSorted(hist) /\ ~filter_pos) =>
       /\ \A n \in 0..Len(hist) :
             Cardinality(PosLevelsAfter(hist, n)) = Min2(max_depth, MaxShared(hist, n))
       /\ Cardinality({l \in DOMAIN level_dict : l > 0})
             = Min2(max_depth, MaxShared(hist, Len(hist)))
       /\ \A n \in PosCalls(hist, Len(hist)) :
             ~Placed(hist, n) => Cardinality(ConflictsWith(hist, n)) >= max_depth

\* two levels, three sorted '+' features sharing a coordinate: the third dropped
C24_Witness ==
    /\ PosSorted(hist) /\ ~filter_pos /\ max_depth = 2
    /\ Len(hist) = 3 /\ AllStrand(hist, "+")
    /\ MaxShared(hist, 3) = 3
    /\ Placed(hist, 1) /\ Placed(hist, 2) /\ ~Placed(hist, 3)
    /\ DOMAIN level_dict = {1, 2}

(***************************************************************************)
(* C25. After any sequence of calls every key of level_dict lies in        *)
(* -max_depth..max_depth, the positive keys are exactly 1..k for some      *)
(* k >= 0 and the negative keys exactly -1..-j for some j >= 0: a level is *)
(* used only after every level nearer to zero on its side.                 *)
(***************************************************************************)
PosKeys == {l \in DOMAIN level_dict : l > 0}
NegKeys == {l \in DOMAIN level_dict : l < 0}

C25_NoGaps ==
    /\ \A l \in DOMAIN level_dict : -max_depth <= l /\ l <= max_depth
    /\ \E k \in 0..max_depth : PosKeys = 1..k
    /\ \E j \in 0..max_depth : NegKeys = {-l : l \in 1..j}

\* both sides in use, the negative one two levels deep
C25_Witness ==
    /\ Len(hist) = 3
    /\ DOMAIN level_dict = {-2, -1, 1}
    /\ \A n \in 1..3 : Placed(hist, n)

(***************************************************************************)
(* C26. Whenever __call__ returns nothing (filtered strand, no free level, *)
(* or unrecognised strand symbol) level_dict is left exactly as it was, so *)
(* min_level, max_level, n_level and all later placements are what they    *)
(* would be had that call not been made.                                   *)
(***************************************************************************)
\* the step is a call that returned nothing
ReturnsNothing == Len(hist') = Len(hist) + 1 /\ hist'[Len(hist')].ret = None

\* the calls of h made in turn on the Level o, each with its own strand:
\* the level_dict left and the values returned
RECURSIVE Rerun(_, _, _)
Rerun(o, h, rets) ==
    IF h = <<>> THEN [level_dict |-> o.level_dict, rets |-> rets]
    ELSE LET r == Call(o, h[1].ID, h[1].start, h[1].end, h[1].strand)
         IN  Rerun([o EXCEPT !.level_dict = r.level_dict, !.count = r.count],
                   Tail(h), Append(rets, r.ret))

\* a new Level constructed with the arguments of this one
Fresh == LevelObj(max_depth, offset, filter_pos, filter_neg, filter_unstrand,
                  EmptyDict, EmptyCount)

\* the calls that returned a placement, made alone on a new Level, return the
\* same placements and leave the same level_dict
AsIfNotMade ==
    LET kept == SelectSeq(hist, LAMBDA c : c.ret # None)
        alone == Rerun(Fresh, kept, <<>>)
    IN  /\ alone.level_dict = level_dict
        /\ \A n \in 1..Len(kept) : alone.rets[n] = kept[n].ret

C26_NothingChanged ==
    /\ [][ReturnsNothing => level_dict' = level_dict]_vars
    /\ []AsIfNotMade

\* a placement, a call that returned nothing, then another placement
C26_Witness ==
    /\ Len(hist) = 3
    /\ Placed(hist, 1) /\ ~Placed(hist, 2) /\ Placed(hist, 3)
    /\ hist[1].strand = "+" /\ hist[2].strand = "+" /\ ~filter_pos
    /\ n_level = 2

(***************************************************************************)
(* C27. The strand stacks are independent: placing a '+' feature changes   *)
(* the record of one positive level only, a '-' feature of one negative    *)
(* level only, a '.' feature of level 0 only; so the level given to each   *)
(* '+' feature is the same whether or not '-' and '.' features are         *)
(* interleaved in the calls, and likewise for '-'.                         *)
(***************************************************************************)
\* the step is a call with that strand that returned a placement
PlacesOn(strand) ==
    /\ Len(hist') = Len(hist) + 1
    /\ hist'[Len(hist')].strand = strand
    /\ hist'[Len(hist')].ret # None

\* level_dict changes at the level of the placement returned, and nowhere else
OnlyItsLevel ==
    /\ DOMAIN level_dict' = DOMAIN level_dict \cup {ret'.level}
    /\ \A l \in DOMAIN level_dict : l # ret'.level => level_dict'[l] = level_dict[l]

\* the calls of one strand, made alone on a new Level, return what they returned
AloneAgrees(strand) ==
    LET own == SelectSeq(hist, LAMBDA c : c.strand = strand)
        alone == Rerun(Fresh, own, <<>>)
    IN  \A n \in 1..Len(own) : alone.rets[n] = own[n].ret

C27_StrandsIndependent ==
    /\ [][/\ PlacesOn("+") => (ret'.level > 0 /\ OnlyItsLevel)
          /\ PlacesOn("-") => (ret'.level < 0 /\ OnlyItsLevel)
          /\ PlacesOn(".") => (ret'.level = 0 /\ OnlyItsLevel)]_vars
    /\ [](AloneAgrees("+") /\ AloneAgrees("-"))

\* a '-' feature between two overlapping '+' features, itself overlapping the first
C27_Witness ==
    /\ Len(hist) = 3
    /\ hist[1].strand = "+" /\ hist[2].strand = "-" /\ hist[3].strand = "+"
    /\ \A n \in 1..3 : Placed(hist, n)
    /\ hist[2].ret.level = -1 /\ hist[3].ret.level = 2
    /\ ~(hist[1].end + offset < hist[2].start)

(***************************************************************************)
(* C28. For integers start < end and bins >= 1 the windows of the bins of  *)
(* interval_coverage tile [start, end): the first starts at start, each    *)
(* ends where the next starts, the last ends at end; so every recorded     *)
(* position of [start, end) is counted in exactly one bin and the 'sum'    *)
(* values of all bins add up to the depth recorded in [start, end).        *)
(***************************************************************************)
WindowsTile ==
    /\ cov_wins # <<>>
    /\ cov_wins[1][1] = cov_call.start
    /\ \A k \in 1..(Len(cov_wins) - 1) : cov_wins[k][2] = cov_wins[k + 1][1]
    /\ cov_wins[Len(cov_wins)][2] = cov_call.end

\* every recorded position of [start, end) lies in the window of exactly one bin
CountedOnce(strand) ==
    \A p \in InWindow(strand, <<cov_call.start, cov_call.end>>) :
       Cardinality({k \in 1..Len(cov_wins) : p \in InWindow(strand, cov_wins[k])}) = 1

\* the depth recorded in [start, end), both strands
RecordedDepth ==
    DepthSum(d[cov_call.refid]["+"], InWindow("+", <<cov_call.start, cov_call.end>>))
    + DepthSum(d[cov_call.refid]["-"], InWindow("-", <<cov_call.start, cov_call.end>>))

C28_WindowsTile ==
    (Called /\ KnownRef /\ ValidFun) =>
       /\ WindowsTile
       /\ CountedOnce("+") /\ CountedOnce("-")
       /\ cov_call.fun = "sum" => RowsTotal(cov_df) = RecordedDepth

(***************************************************************************)
(* C21. After the construction of an Alignment from any input, the         *)
(* coverage map of every reference and strand holds exactly the positions  *)
(* whose depth is >= min_coverage (none below, none at or above missing),  *)
(* each with its depth, in ascending order of position.                    *)
(***************************************************************************)
IsConstructed == init_args # None /\ exc = ""

\* the reads of the BAM/SAM file on that strand of refid that cover position p,
\* each with the index of p among its positions
Covers(refid, strand, p) ==
    {<<k, j>> \in (1..Len(init_fp.reads)) \X (1..2) :
        /\ init_fp.reads[k].reference_name = refid
        /\ init_fp.reads[k].is_reverse = (strand = "-")
        /\ j <= Len(init_fp.reads[k].positions)
        /\ init_fp.reads[k].positions[j] = p}

\* the rows of the coverage BED file for position p of that strand of refid
RowsFor(refid, strand, p) ==
    {k \in 1..Len(init_fp.rows) :
        /\ init_fp.rows[k].refid = refid
        /\ init_fp.rows[k].strand = strand
        /\ init_fp.rows[k].position = p}

\* the depth the file gives to position p: the number of reads covering it, or
\* the coverage of the last row for it
DepthAt(refid, strand, p) ==
    IF init_fp.ext = "bam" THEN Cardinality(Covers(refid, strand, p))
    ELSE IF RowsFor(refid, strand, p) = {} THEN 0
    ELSE init_fp.rows[SetMax(RowsFor(refid, strand, p))].coverage

\* the positions the file speaks of
FilePositions ==
    IF init_fp.ext = "bam"
    THEN UNION {{init_fp.reads[k].positions[j] : j \in 1..Len(init_fp.reads[k].positions)} :
                   k \in 1..Len(init_fp.reads)}
    ELSE {init_fp.rows[k].position : k \in 1..Len(init_fp.rows)}

\* ser holds exactly the positions of depth >= min_coverage, with their depth,
\* in ascending order
ExactlyRetained(refid, strand, ser) ==
    /\ {ser[k][1] : k \in 1..Len(ser)}
          = {p \in FilePositions : DepthAt(refid, strand, p) >= init_args.min_coverage}
    /\ \A k \in 1..Len(ser) : ser[k][2] = DepthAt(refid, strand, ser[k][1])
    /\ \A j, k \in 1..Len(ser) : j < k => ser[j][1] < ser[k][1]

RECURSIVE NbasesOver(_, _)
NbasesOver(dd, keys) ==
    IF keys = <<>> THEN 0 ELSE dd[keys[1]]["nbases"] + NbasesOver(dd, Tail(keys))

TotalIsSum == nbases = NbasesOver(d, d_keys)

C29_NbasesSums ==
    IsConstructed =>
       /\ TotalIsSum
       /\ \A refid \in DOMAIN d :
             d[refid]["nbases"] = ItemSum(d[refid]["+"]) + ItemSum(d[refid]["-"])

\* what holds on both paths, and the whole claim on the BAM/SAM path
NbasesOfBam ==
    IsConstructed =>
       /\ TotalIsSum
       /\ init_fp.ext = "bam" =>
             \A refid \in DOMAIN d :
                d[refid]["nbases"] = ItemSum(d[refid]["+"]) + ItemSum(d[refid]["-"])

(***************************************************************************)
(* C22. In interval_plot every (annotation track, feature type) group is   *)
(* laid out on a Level of its own, new when the group starts, and the      *)
(* calls made on that Level have non-decreasing start coordinates, for     *)
(* every table interval_features returns, sampled or not.                  *)
(***************************************************************************)
InLayout == plot_pc # None /\ plot_pc.level

\* the rows of the group being laid out
GroupRows == FeatureDf(annotation_dict[plot_pc.track].df, plot_pc.group)

\* the Level that Level(offset=annotation_offset) constructs
PlotLevel ==
    LevelObj(DefaultMaxDepth, plot_call.annotation_offset, FALSE, FALSE, FALSE,
             EmptyDict, EmptyCount)

\* the calls made on the Level are those for the first rows of the group, one
\* per row and in the order of the table
OwnCalls ==
    /\ Len(hist) = plot_pc.row
    /\ \A n \in 1..Len(hist) :
          /\ hist[n].ID = GroupRows[n].ID
          /\ hist[n].start = GroupRows[n].start
          /\ hist[n].end = GroupRows[n].end
          /\ hist[n].strand = GroupRows[n].strand

\* the Level holds what these calls alone leave on a new Level
OwnLevel ==
    /\ Self = [PlotLevel EXCEPT !.level_dict = level_dict, !.count = count]
    /\ level_dict = Rerun(PlotLevel, hist, <<>>).level_dict
    /\ count.all_features = Len(hist)

StartsAscend == \A j, k \in 1..Len(hist) : j < k => hist[j].start <= hist[k].start

C22_WitnessLater ==
    /\ InLayout
    /\ plot_pc.row = 1
    /\ \/ plot_pc.group = 2
       \/ plot_pc.track = 2
    /\ count.all_features = 1

(***************************************************************************)
(* C30. In interval_plot min_level and max_level are queried on a          *)
(* non-empty level map only: once the layout pass over a group (never      *)
(* empty, and whatever the strand symbols of its features) is over, at     *)
(* least one level is present.                                             *)
(***************************************************************************)
\* every row of the group has been passed to the Level: set_ylim is next
AtQuery == InLayout /\ plot_pc.row = Len(GroupRows)

C30_LevelsPresent == AtQuery => Len(GroupRows) > 0 /\ DOMAIN level_dict # {}

\* the groups are never empty, and the map is empty at the query only when no
\* feature of the group carries '+', '-' or '.'
LevelsPresentIfStranded ==
    AtQuery =>
       /\ Len(GroupRows) > 0
       /\ DOMAIN level_dict = {}
             <=> \A n \in 1..Len(GroupRows) : GroupRows[n].strand \notin {"+", "-", "."}

(***************************************************************************)
(* C23. When add_annotation or add_alignment raises (unsupported format,   *)
(* parse error), the annotation tracks, the alignment tracks and the       *)
(* reference of the session are exactly as before the call, and the        *)
(* session is afterwards as if the failed call had not been made: it is    *)
(* the session the other calls alone build.                                *)
(***************************************************************************)
CallRaised == adds' # adds /\ exc' # ""

SessionKept ==
    /\ annotations' = annotations
    /\ alignments' = alignments
    /\ reference' = reference

\* the tracks the calls of h build, made in turn on a session without tracks
RECURSIVE ReplayAdds(_, _, _)
ReplayAdds(h, annots, aligns) ==
    IF h = <<>> THEN [annotations |-> annots, alignments |-> aligns]
    ELSE IF h[1].method = "add_annotation"
    THEN ReplayAdds(Tail(h), AddTrack(annots, Annotation(h[1].fp, reference.ref_list)),
                aligns)
    ELSE ReplayAdds(Tail(h), annots,
                AddTrack(aligns, Alignment(h[1].fp, h[1].min_coverage)))

AsIfNotCalled ==
    ReplayAdds(SelectSeq(adds, LAMBDA c : c.exc = ""), <<>>, <<>>)
       = [annotations |-> annotations, alignments |-> alignments]

C23_FailedAddLeavesSession ==
    /\ [][CallRaised => SessionKept]_vars
    /\ [](reference # None => AsIfNotCalled)

\* an alignment is added, then a file of an unsupported format and a file with
\* a field that is not a number are refused: one track, the first
C23_Witness ==
    /\ Len(adds) = 3
    /\ adds[1].exc = ""
    /\ adds[2].exc = "ValueError"
    /\ adds[2].fp.ext = "txt"
    /\ adds[3].exc = "ValueError"
    /\ adds[3].fp.ext = "bed"
    /\ adds[3].method = "add_alignment"
    /\ Len(alignments) = 1
    /\ annotations = <<>>

====
